---- MODULE Spec2Model ----
(***************************************************************************)
(* Task Orchestrator (src/taskOrchestrator.js) with the Job Queue and the  *)
(* Result Reconciliator it drives.  The orchestrator is translated from    *)
(* its source; jobQueue.js and resultReconciliator.js are not part of the  *)
(* source tree and are modelled from spec.md sections 3, 4.1, 4.3 and 5.   *)
(***************************************************************************)
EXTENDS Integers, Sequences, FiniteSets, TLC

\* ------------------------------------------------------------------ bounds
\* Total number of jobs ever submitted to the queue in one behaviour.
MaxJobs == 3
\* Messages the chat overlay holds at most.
MaxMessages == 4

JobIds == 1..MaxJobs
\* Identities of the executeParallelAnalysis calls (crypto.randomUUID()).
Analyses == {"a1", "a2"}
\* Awaiters of a job: the analysis that submitted it, or an outside caller.
Waiters == Analyses \cup {"ext"}

\* ------------------------------------------------------- program constants
DefaultMaxWorkers == 4
DefaultMaxConcurrent == 3
QueueMaxRetries == 2
\* confidence is kept in hundredths: 0.7 is 70
DefaultConfidence == 70
DefaultMaxAge == 3600000
NoConf == 0 - 1
\* An optional argument: None when the caller left it out, Some(x) otherwise.
\* A number the code reads as `x || default` is 0 when left out.
None == <<>>
Some(x) == <<x>>
Get(o) == o[1]

\* Priority enumeration of the Job Queue (ordered).
Priority == [LOW |-> 1, MEDIUM |-> 2, HIGH |-> 3, CRITICAL |-> 4]

\* TaskType enumeration.
TaskType == [DOM_ANALYSIS |-> "dom_analysis",
             VISION_ANALYSIS |-> "vision_analysis",
             VISUAL_SEGMENTATION |-> "visual_segmentation",
             ELEMENT_CLASSIFICATION |-> "element_classification",
             VISUAL_MAPPING |-> "visual_mapping",
             STATE_TRACKING |-> "state_tracking",
             ANIMATION_DETECTION |-> "animation_detection",
             TRANSITION_PREDICTION |-> "transition_prediction",
             PATTERN_MATCHING |-> "pattern_matching",
             LEARNING_INFERENCE |-> "learning_inference",
             COMBINED_ANALYSIS |-> "combined_analysis"]

\* The task types createTaskFunction has a case for; any other one throws.
KnownTaskTypes == {TaskType.DOM_ANALYSIS, TaskType.VISION_ANALYSIS,
                   TaskType.VISUAL_SEGMENTATION, TaskType.ELEMENT_CLASSIFICATION,
                   TaskType.VISUAL_MAPPING, TaskType.STATE_TRACKING,
                   TaskType.ANIMATION_DETECTION, TaskType.TRANSITION_PREDICTION,
                   TaskType.PATTERN_MATCHING, TaskType.LEARNING_INFERENCE}

\* The source each task function stamps on the result it returns.
SourceOf(type) ==
    CASE type = TaskType.DOM_ANALYSIS -> "dom"
      [] type \in {TaskType.VISION_ANALYSIS, TaskType.VISUAL_SEGMENTATION,
                   TaskType.VISUAL_MAPPING} -> "vision"
      [] type \in {TaskType.ELEMENT_CLASSIFICATION, TaskType.STATE_TRACKING,
                   TaskType.ANIMATION_DETECTION} -> "heuristic"
      [] type \in {TaskType.TRANSITION_PREDICTION, TaskType.LEARNING_INFERENCE} -> "learning"
      [] type = TaskType.PATTERN_MATCHING -> "pattern"
      [] OTHER -> "unknown"

\* ----------------------------------------------------------------- state
VARIABLES
    cfg,            \* orchestrator fields set by the constructor
    q,              \* the Job Queue: options, jobs, ready list, awaiters
    tracker,        \* whether the StateTracker holds a captured state
    tasks,          \* this.tasks: job id -> status of the entry ("none": no entry)
    analyses,       \* this.activeAnalyses: analysis id -> entry
    stats,          \* this.stats
    calls,          \* each executeParallelAnalysis call: position and locals
    events,         \* analysis:* notifications emitted, per analysis id
    reconciled,     \* calls made to reconciliator.reconcile, per analysis id
    aged,           \* which entries were created before the current clock instant
    lastCall,       \* the synchronous API call of the last step and what it returned
    agent,          \* the enhanced agent (src/enhancedAgent.js): flags and its loops
    caller,         \* a caller's request and options objects, reused from call to call
    chat,           \* the chat overlay (src/chatOverlay.js)
    snapshot        \* the analysis whose request the StateTracker's current state was captured from

vars == <<cfg, q, tracker, tasks, analyses, stats, calls, events, reconciled,
          aged, lastCall, agent, caller, chat, snapshot>>

orchestrator == <<cfg, q, tracker, tasks, analyses, stats, calls, events, reconciled,
                  aged, lastCall, snapshot>>

NoCall == [op |-> "none", an |-> "none", job |-> 0, ok |-> FALSE, count |-> 0]

\* No caller keeps its objects for a second call.
NoCaller ==
    [built |-> FALSE,
     request |-> [screenshot |-> FALSE, viewport |-> FALSE, domNodes |-> FALSE],
     options |-> [analysisTypes |-> None, priority |-> 0,
                  useVisualAnalysis |-> None, useTemporalAnalysis |-> None]]

\* The chat overlay is not open.
\* The overlay after its constructor: expanded, nothing unread, the welcome
\* message of loadInitialMessages added. messages holds the senders; since holds
\* the senders of the messages added since the overlay last became collapsed
\* or was cleared.
NoChat == [expanded |-> TRUE, unreadCount |-> 0, messages |-> <<"agent">>, since |-> <<>>]

\* ---------------------------------------------------------- result payloads
\* The target of a proposed action: a click names an element, scroll has none.
SelectorOf(action) == IF action = "click" THEN "#s1" ELSE "none"

NoPayload == [job |-> 0, source |-> "none", action |-> "none", selector |-> "none",
              confidence |-> NoConf, supplied |-> NoConf, reason |-> "none",
              sources |-> <<>>]

\* What the task function of job j returns when it succeeds with confidence c
\* (c = NoConf: the task supplied no confidence).  job stands for the identity
\* of the returned object, supplied keeps the confidence as the task gave it.
TaskResult(j, type, action, c) ==
    [job |-> j, source |-> SourceOf(type), action |-> action,
     selector |-> SelectorOf(action),
     confidence |-> c, supplied |-> c, reason |-> type, sources |-> <<>>]

\* ------------------------------------------------------------- Job Queue
TerminalStates == {"completed", "failed", "timeout", "cancelled"}
ActiveStates == {"pending", "running"}

NoJob == [state |-> "none", prio |-> 0, attempts |-> 0, starts |-> 0,
          maxRetries |-> 0, type |-> "none", owner |-> "none", value |-> NoPayload]

RunningCount(jobs) == Cardinality({j \in JobIds : jobs[j].state = "running"})

SubmittedCount(jobs) == Cardinality({j \in JobIds : jobs[j].state # "none"})

RemoveAt(s, i) == SubSeq(s, 1, i - 1) \o SubSeq(s, i + 1, Len(s))

RemoveJob(s, j) == SelectSeq(s, LAMBDA x : x # j)

\* Position in the ready list (kept in enqueue order) of the job to start next:
\* highest priority first, earliest enqueued among equals.
NextReadyIndexFifo(jobs, ready) == 1

\* highest priority first, latest enqueued among equals
NextReadyIndexNewest(jobs, ready) ==
    CHOOSE i \in 1..Len(ready) :
        \A k \in 1..Len(ready) :
            \/ jobs[ready[k]].prio < jobs[ready[i]].prio
            \/ jobs[ready[k]].prio = jobs[ready[i]].prio /\ k <= i

NextReadyIndex(jobs, ready) ==
    CHOOSE i \in 1..Len(ready) :
        \A k \in 1..Len(ready) :
            \/ jobs[ready[k]].prio < jobs[ready[i]].prio
            \/ jobs[ready[k]].prio = jobs[ready[i]].prio /\ i <= k

\* The scheduler's decision point: start ready jobs while a slot is free.
RECURSIVE Dispatch(_)
Dispatch(qs) ==
    LET StartNext(v) ==
            IF v.ready = <<>> \/ RunningCount(v.jobs) >= v.opts.maxConcurrent
            THEN v
            ELSE LET i == NextReadyIndex(v.jobs, v.ready)
                     j == v.ready[i]
                 IN Dispatch([v EXCEPT !.jobs[j].state = "running",
                                       !.jobs[j].starts = @ + 1,
                                       !.ready = RemoveAt(v.ready, i)])
    IN \* the queue state is evaluated once, then the decision is taken on it
       CHOOSE r \in {StartNext(v) : v \in {qs}} : TRUE

\* no awaiter is told
NotifyNone(qs, j, kind) == qs

\* Every awaiter registered on job j receives the outcome `kind`, once.
Notify(qs, j, kind) ==
    [qs EXCEPT !.obs[j] = [w \in Waiters |->
                              IF w \in qs.awaiting[j] THEN Append(@[w], kind) ELSE @[w]],
               !.awaiting[j] = {}]

\* submit(work, options) -> jobId
QSubmit(qs, j, prio, maxRetries, type, owner) ==
    Dispatch([qs EXCEPT !.jobs[j] = [NoJob EXCEPT !.state = "pending", !.prio = prio,
                                                  !.maxRetries = maxRetries,
                                                  !.type = type, !.owner = owner],
                        !.ready = Append(qs.ready, j)])

\* awaitCompletion(jobId): settled at once when the job is already terminal.
QAwait(qs, j, w) ==
    IF qs.jobs[j].state \in TerminalStates
    THEN [qs EXCEPT !.obs[j][w] = Append(@, qs.jobs[j].state)]
    ELSE [qs EXCEPT !.awaiting[j] = @ \cup {w}]

\* The running attempt of job j succeeded with value v.
QComplete(qs, j, v) ==
    Dispatch(Notify([qs EXCEPT !.jobs[j].state = "completed", !.jobs[j].value = v],
                    j, "completed"))

\* An attempt that failed is reported to the awaiters at once, retried or not.
QAttemptFailedEager(qs, j, kind) ==
    IF qs.jobs[j].attempts < qs.jobs[j].maxRetries
    THEN Dispatch(Notify([qs EXCEPT !.jobs[j].state = "pending",
                                    !.jobs[j].attempts = @ + 1], j, kind))
    ELSE Dispatch(Notify([qs EXCEPT !.jobs[j].state = kind], j, kind))

\* The running attempt of job j ended with `kind` ("failed": the work threw,
\* "timeout": it did not settle within timeoutMs).  Retried while
\* attempts < maxRetries: the job is Pending again, outside the ready list until
\* its backoff delay has elapsed.
QAttemptFailed(qs, j, kind) ==
    IF qs.jobs[j].attempts < qs.jobs[j].maxRetries
    THEN Dispatch([qs EXCEPT !.jobs[j].state = "pending", !.jobs[j].attempts = @ + 1])
    ELSE Dispatch(Notify([qs EXCEPT !.jobs[j].state = kind], j, kind))

\* The backoff delay of a retried job elapsed: it re-enters the ready list.
QRequeue(qs, j) == Dispatch([qs EXCEPT !.ready = Append(@, j)])

InBackoff(qs, j) ==
    qs.jobs[j].state = "pending" /\ \A i \in 1..Len(qs.ready) : qs.ready[i] # j

\* cancel(jobId) -> bool
QCanCancel(qs, j) == j \in JobIds /\ qs.jobs[j].state \in ActiveStates

\* the slot of a cancelled Running job is kept until its work has stopped
QCancelKeepsSlot(qs, j) ==
    IF QCanCancel(qs, j)
    THEN Notify([qs EXCEPT !.jobs[j].state = "cancelled",
                           !.ready = RemoveJob(@, j)], j, "cancelled")
    ELSE qs

QCancel(qs, j) ==
    IF QCanCancel(qs, j)
    THEN Dispatch(Notify([qs EXCEPT !.jobs[j].state = "cancelled",
                                    !.ready = RemoveJob(@, j)], j, "cancelled"))
    ELSE qs

\* The attempt of job j that the scheduler gave up (timeout, cancellation of a
\* Running job) cannot be interrupted: its work keeps going.
QAbandon(qs, j) == [qs EXCEPT !.stale[j] = @ + 1]

\* the late result taken as the job's outcome
QLateResultTaken(qs, j, ok) ==
    [qs EXCEPT !.stale[j] = @ - 1,
               !.jobs[j].state = IF ok THEN "completed" ELSE "failed"]

\* The work of an abandoned attempt of job j settles at last (ok: with a
\* value); the scheduler's bookkeeping ignores it.
QLateResult(qs, j, ok) ==
    [qs EXCEPT !.stale[j] = @ - 1, !.discarded[j] = @ \cup {ok}]

\* the timeout reported as an ordinary failure
QTimedOutAsFailure(qs, j) == QAttemptFailed(qs, j, "failed")

\* The timeout timer of the running attempt of job j fired.
QTimedOut(qs, j) == QAttemptFailed(qs, j, "timeout")

\* shutdown(): every Pending or Running job is cancelled, its awaiters are
\* told, and the queue takes no further submission.
QShutdown(qs) ==
    LET active(j) == qs.jobs[j].state \in ActiveStates
    IN [qs EXCEPT
          !.jobs = [j \in JobIds |->
                       IF active(j) THEN [qs.jobs[j] EXCEPT !.state = "cancelled"]
                       ELSE qs.jobs[j]],
          !.ready = <<>>,
          !.obs = [j \in JobIds |-> [w \in Waiters |->
                       IF active(j) /\ w \in qs.awaiting[j]
                       THEN Append(qs.obs[j][w], "cancelled") ELSE qs.obs[j][w]]],
          !.awaiting = [j \in JobIds |-> IF active(j) THEN {} ELSE qs.awaiting[j]],
          !.down = TRUE]

\* The record of terminal job j is dropped by cleanup; its identifier then
\* stands for the fresh id of a later submission.
QForget(qs, j) ==
    [qs EXCEPT !.jobs[j] = NoJob, !.awaiting[j] = {},
               !.obs[j] = [w \in Waiters |-> <<>>],
               !.stale[j] = 0, !.discarded[j] = {}]

\* cleanup(maxAgeMs): forget the terminal jobs older than the threshold.
QExpired(qs, old, maxAge) ==
    {j \in JobIds : qs.jobs[j].state \in TerminalStates /\ j \in old /\ maxAge = 0}

QCleanup(qs, old, maxAge) ==
    [qs EXCEPT !.jobs = [j \in JobIds |->
                            IF j \in QExpired(qs, old, maxAge)
                            THEN [NoJob EXCEPT !.state = "removed",
                                               !.value = qs.jobs[j].value]
                            ELSE qs.jobs[j]]]

\* ------------------------------------------------------ Result Reconciliator
AgreementBonus == 25

SourceRank(src) ==
    CASE src = "dom" -> 1 [] src = "vision" -> 2 [] src = "heuristic" -> 3
      [] src = "learning" -> 4 [] src = "pattern" -> 5 [] OTHER -> 6

Min(x, y) == IF x < y THEN x ELSE y

\* reconcile(candidates, {context}): the agreement groups are the candidates
\* with the same (action, selector); a group's confidence is its best member's
\* plus a bonus per further agreeing source, capped at 1.0.
GroupOf(cands, i) ==
    {k \in 1..Len(cands) : cands[k].action = cands[i].action
                           /\ cands[k].selector = cands[i].selector}

GroupBest(cands, i) ==
    CHOOSE m \in {cands[k].confidence : k \in GroupOf(cands, i)} :
        \A k \in GroupOf(cands, i) : cands[k].confidence <= m

\* the combined confidence without its cap
GroupConfidenceUncapped(cands, i) ==
    GroupBest(cands, i) + AgreementBonus * (Cardinality(GroupOf(cands, i)) - 1)

GroupConfidence(cands, i) ==
    Min(100, GroupBest(cands, i) + AgreementBonus * (Cardinality(GroupOf(cands, i)) - 1))

GroupRank(cands, i) ==
    CHOOSE r \in {SourceRank(cands[k].source) : k \in GroupOf(cands, i)} :
        \A k \in GroupOf(cands, i) : r <= SourceRank(cands[k].source)

\* the groups compared by combined confidence alone
PrefersConfidence(cands, i, k) == GroupConfidence(cands, i) >= GroupConfidence(cands, k)

\* group of i is preferred to (or as good as) the group of k
Prefers(cands, i, k) ==
    LET ci == GroupConfidence(cands, i)  ck == GroupConfidence(cands, k)
        ni == Cardinality(GroupOf(cands, i))  nk == Cardinality(GroupOf(cands, k))
        bi == GroupBest(cands, i)  bk == GroupBest(cands, k)
    IN \/ ci > ck
       \/ ci = ck /\ ni > nk
       \/ ci = ck /\ ni = nk /\ bi > bk
       \/ ci = ck /\ ni = nk /\ bi = bk /\ GroupRank(cands, i) <= GroupRank(cands, k)

\* a single candidate taken as enough
ReconcileAcceptsOne(cands) == Len(cands) >= 1

\* reconcile guards against fewer than two candidates: such a call is rejected.
ReconcileAccepts(cands) == Len(cands) >= 2

\* the single best candidate returned, agreement ignored
ReconcileHighest(cands, context) ==
    LET w == CHOOSE i \in 1..Len(cands) :
                 \A k \in 1..Len(cands) : cands[k].confidence <= cands[i].confidence
    IN [job |-> 0, source |-> "reconciled", action |-> cands[w].action,
        selector |-> cands[w].selector, confidence |-> cands[w].confidence,
        supplied |-> NoConf, reason |-> "agreement", sources |-> <<cands[w].source>>]

Reconcile(cands, context) ==
    LET w == CHOOSE i \in 1..Len(cands) :
                 /\ \A k \in 1..Len(cands) : Prefers(cands, i, k)
                 /\ cands[i].confidence = GroupBest(cands, i)
                 /\ \A k \in GroupOf(cands, i) :
                        cands[k].confidence = GroupBest(cands, i) => i <= k
        members == SelectSeq(cands, LAMBDA c : c.action = cands[w].action
                                               /\ c.selector = cands[w].selector)
    IN [job |-> 0, source |-> "reconciled", action |-> cands[w].action,
        selector |-> cands[w].selector, confidence |-> GroupConfidence(cands, w),
        supplied |-> NoConf, reason |-> "agreement",
        sources |-> [i \in 1..Len(members) |-> members[i].source]]

\* ---------------------------------------------------------- Task Orchestrator
NoAnalysis == [status |-> "none", taskIds |-> <<>>, taskTypes |-> <<>>,
               result |-> NoPayload, tasksCompleted |-> 0, tasksFailed |-> 0]

NoCallState == [pc |-> "idle", types |-> <<>>, priority |-> 0, idx |-> 0, cur |-> 0,
                taskIds |-> <<>>, context |-> "none", error |-> "none",
                result |-> NoPayload]

\* new JobQueue({..., maxRetries: 3, ...})
JobQueueOptionsRetries(maxWorkers, maxConcurrent) ==
    [maxConcurrent |-> maxConcurrent, maxRetries |-> 3]

\* new JobQueue({maxConcurrent: this.maxConcurrent, maxRetries: 2, retryDelay: 1000})
JobQueueOptionsWorkers(maxWorkers, maxConcurrent) ==
    [maxConcurrent |-> maxWorkers, maxRetries |-> QueueMaxRetries]

JobQueueOptions(maxWorkers, maxConcurrent) ==
    [maxConcurrent |-> maxConcurrent, maxRetries |-> QueueMaxRetries]

\* The constructor: options.x || default
Constructed(options) ==
    [maxWorkers |-> IF options.maxWorkers = 0 THEN DefaultMaxWorkers
                    ELSE options.maxWorkers,
     maxConcurrent |-> IF options.maxConcurrent = 0 THEN DefaultMaxConcurrent
                       ELSE options.maxConcurrent,
     enableVisualAnalysis |-> IF options.enableVisualAnalysis = None THEN TRUE
                              ELSE Get(options.enableVisualAnalysis),
     enableTemporalAnalysis |-> IF options.enableTemporalAnalysis = None THEN TRUE
                                ELSE Get(options.enableTemporalAnalysis)]

UseTemporal(opts) ==
    IF opts.useTemporalAnalysis # None THEN Get(opts.useTemporalAnalysis)
    ELSE cfg.enableTemporalAnalysis

\* the orchestrator's toggle whatever the call's options say
UseVisualConfigured(opts) == cfg.enableVisualAnalysis

UseVisual(opts) ==
    IF opts.useVisualAnalysis # None THEN Get(opts.useVisualAnalysis)
    ELSE cfg.enableVisualAnalysis

\* The task plan of executeParallelAnalysis; hasState is
\* stateTracker.getCurrentState() after this call's captureState.
DerivePlan(req, opts, hasState) ==
    LET base == IF opts.analysisTypes # None THEN Get(opts.analysisTypes)
                ELSE <<TaskType.DOM_ANALYSIS, TaskType.VISION_ANALYSIS>>
        visual == UseVisual(opts) /\ req.screenshot /\ req.viewport
        withVisual ==
            IF visual
            THEN <<TaskType.VISUAL_SEGMENTATION, TaskType.ELEMENT_CLASSIFICATION>> \o base
                 \o (IF req.domNodes THEN <<TaskType.VISUAL_MAPPING>> ELSE <<>>)
            ELSE base
    IN IF UseTemporal(opts)
       THEN withVisual \o <<TaskType.STATE_TRACKING, TaskType.ANIMATION_DETECTION>>
            \o (IF cfg.enableTemporalAnalysis /\ hasState
                THEN <<TaskType.TRANSITION_PREDICTION>> ELSE <<>>)
       ELSE withVisual

\* options.priority || Priority.MEDIUM
TaskPriority(p) == IF p = 0 THEN Priority.MEDIUM ELSE p

\* Number of jobs the entries of `types` after position idx will still submit:
\* the loop stops at the first type createTaskFunction does not know.
RECURSIVE JobsAhead(_, _)
JobsAhead(types, idx) ==
    IF idx >= Len(types) \/ types[idx + 1] \notin KnownTaskTypes THEN 0
    ELSE 1 + JobsAhead(types, idx + 1)

Reserved ==
    LET RECURSIVE Sum(_)
        Sum(S) == IF S = {} THEN 0
                  ELSE LET a == CHOOSE x \in S : TRUE
                       IN (IF calls[a].pc = "submitting"
                           THEN JobsAhead(calls[a].types, calls[a].idx) ELSE 0)
                          + Sum(S \ {a})
    IN Sum(Analyses)

\* createAnalysisTask(type, data, {priority, timeout}) on queue qs and task map
\* ts: createTaskFunction throws on an unknown type, after totalTasks++.
CreateAnalysisTask(qs, ts, a, type, priority) ==
    LET id == CHOOSE j \in JobIds :
                  /\ qs.jobs[j].state = "none"
                  /\ \A k \in JobIds : k < j => qs.jobs[k].state # "none"
    IN IF type \in KnownTaskTypes /\ ~qs.down
       THEN [thrown |-> FALSE, error |-> "none", id |-> id,
             q |-> QSubmit(qs, id, TaskPriority(priority), qs.opts.maxRetries, type, a),
             tasks |-> [ts EXCEPT ![id] = "pending"]]
       ELSE [thrown |-> TRUE,
             error |-> IF type \in KnownTaskTypes THEN "queue_shutdown" ELSE "unknown_type",
             id |-> 0, q |-> qs, tasks |-> ts]

\* updateStats(duration, success)
UpdateStats(st, success) ==
    IF success THEN [st EXCEPT !.completedTasks = @ + 1]
    ELSE [st EXCEPT !.failedTasks = @ + 1]

Emit(a, name, count) ==
    events' = [events EXCEPT ![a] = Append(@, [name |-> name, count |-> count])]

\* executeParallelAnalysis, from its entry to the first await: the state
\* capture, the task plan and the first createAnalysisTask.
ExecStart(a, req, opts) ==
    /\ calls[a].pc = "idle"
    /\ LET capture == UseTemporal(opts) /\ cfg.enableTemporalAnalysis
           hasState == tracker \/ capture
           types == DerivePlan(req, opts, hasState)
           made == CreateAnalysisTask(q, tasks, a, types[1], opts.priority)
           c0 == [NoCallState EXCEPT !.types = types, !.priority = opts.priority,
                                     !.context = a]
       IN /\ SubmittedCount(q.jobs) + Reserved + JobsAhead(types, 0) <= MaxJobs
          /\ tracker' = hasState
          /\ snapshot' = (IF capture THEN a ELSE snapshot)
          /\ IF types = <<>>
             THEN /\ calls' = [calls EXCEPT ![a] = [c0 EXCEPT !.pc = "waiting"]]
                  /\ analyses' = [analyses EXCEPT ![a] =
                                    [NoAnalysis EXCEPT !.status = "running"]]
                  /\ UNCHANGED <<q, tasks, stats>>
             ELSE /\ stats' = [stats EXCEPT !.totalTasks = @ + 1]
                  /\ q' = made.q
                  /\ tasks' = made.tasks
                  /\ calls' = [calls EXCEPT ![a] =
                                 IF made.thrown
                                 THEN [c0 EXCEPT !.pc = "rejected", !.error = made.error]
                                 ELSE [c0 EXCEPT !.pc = "submitting", !.idx = 1,
                                                 !.cur = made.id]]
                  /\ UNCHANGED analyses
    /\ lastCall' = NoCall
    /\ UNCHANGED <<cfg, events, reconciled, aged, agent, caller, chat>>

\* The loop body after `await this.createAnalysisTask(...)`: the job id is
\* recorded and awaited; then the next task is created or, after the last one,
\* the analysis is stored and the call waits on Promise.allSettled.
ExecLoop(a) ==
    /\ calls[a].pc = "submitting"
    /\ LET c == calls[a]
           ids == Append(c.taskIds, c.cur)
           waited == QAwait(q, c.cur, a)
           made == CreateAnalysisTask(waited, tasks, a, c.types[c.idx + 1], c.priority)
       IN IF c.idx = Len(c.types)
          THEN /\ q' = waited
               /\ calls' = [calls EXCEPT ![a] = [c EXCEPT !.pc = "waiting", !.cur = 0,
                                                          !.taskIds = ids]]
               /\ analyses' = [analyses EXCEPT ![a] =
                                 [NoAnalysis EXCEPT !.status = "running",
                                                    !.taskIds = ids,
                                                    !.taskTypes = c.types]]
               /\ UNCHANGED <<tasks, stats>>
          ELSE /\ stats' = [stats EXCEPT !.totalTasks = @ + 1]
               /\ q' = made.q
               /\ tasks' = made.tasks
               /\ calls' = [calls EXCEPT ![a] =
                              IF made.thrown
                              THEN [c EXCEPT !.pc = "rejected", !.error = made.error,
                                             !.cur = 0, !.taskIds = ids]
                              ELSE [c EXCEPT !.idx = @ + 1, !.cur = made.id,
                                             !.taskIds = ids]]
               /\ UNCHANGED analyses
    /\ lastCall' = NoCall
    /\ UNCHANGED <<cfg, tracker, events, reconciled, aged, agent, caller, chat, snapshot>>

\* Promise.allSettled(taskPromises) has settled: every awaited job delivered.
AllSettled(a) == \A i \in 1..Len(calls[a].taskIds) : q.obs[calls[a].taskIds[i]][a] # <<>>

\* every settled entry taken as a success
FulfilledAny(a, j) == TRUE

\* result.status === 'fulfilled' && result.value
Fulfilled(a, j) == Head(q.obs[j][a]) = "completed"

\* every settled entry's value collected
SuccessfulIdsAll(a) == calls[a].taskIds

SuccessfulIds(a) == SelectSeq(calls[a].taskIds, LAMBDA j : Fulfilled(a, j))

\* failedTasks: for every settled entry that is not a success, in plan order,
\* taskIds[index] and analysisTypes[index].
FailedTasks(a) ==
    LET ids == calls[a].taskIds
        failed == SelectSeq([i \in 1..Len(ids) |-> i], LAMBDA i : ~Fulfilled(a, ids[i]))
    IN [k \in 1..Len(failed) |->
           [taskId |-> ids[failed[k]], taskType |-> calls[a].types[failed[k]]]]

\* reconciledResult.confidence = reconciledResult.confidence || 0.7
ConfidenceOrDefault(c) == IF c = NoConf \/ c = 0 THEN DefaultConfidence ELSE c

\* The single successful result, changed in place.
SingleResult(v) ==
    [v EXCEPT !.confidence = ConfidenceOrDefault(@), !.sources = <<v.source>>]

\* The end of the try block: statistics, the analysis entry, the notification.
Succeed(a, result) ==
    /\ stats' = UpdateStats(stats, TRUE)
    /\ analyses' = [analyses EXCEPT ![a] =
                      IF @.status = "none" THEN @
                      ELSE [@ EXCEPT !.status = "completed", !.result = result,
                                     !.tasksCompleted = Len(SuccessfulIds(a)),
                                     !.tasksFailed = Len(FailedTasks(a))]]
    /\ Emit(a, "analysis:completed", 0)
    /\ calls' = [calls EXCEPT ![a] = [@ EXCEPT !.pc = "resolved", !.result = result]]

\* The catch block.
Fail(a, error) ==
    /\ stats' = UpdateStats(stats, FALSE)
    /\ analyses' = [analyses EXCEPT ![a] =
                      IF @.status = "none" THEN @ ELSE [@ EXCEPT !.status = "failed"]]
    /\ Emit(a, "analysis:failed", 0)
    /\ calls' = [calls EXCEPT ![a] = [@ EXCEPT !.pc = "rejected", !.error = error]]

\* The continuation of executeParallelAnalysis after Promise.allSettled.
Aggregate(a) ==
    /\ calls[a].pc = "waiting"
    /\ AllSettled(a)
    /\ LET ok == SuccessfulIds(a)
       IN CASE Len(ok) = 0 ->
                 /\ Fail(a, "all_failed")
                 /\ UNCHANGED <<q, reconciled>>
            [] Len(ok) = 1 ->
                 /\ q' = [q EXCEPT !.jobs[ok[1]].value = SingleResult(@)]
                 /\ Succeed(a, SingleResult(q.jobs[ok[1]].value))
                 /\ UNCHANGED reconciled
            [] OTHER ->
                 /\ reconciled' = [reconciled EXCEPT ![a] =
                        Append(@, [candidates |-> [i \in 1..Len(ok) |-> q.jobs[ok[i]].value],
                                   context |-> calls[a].context])]
                 /\ calls' = [calls EXCEPT ![a].pc = "reconciling"]
                 /\ UNCHANGED <<q, stats, analyses, events>>
    /\ lastCall' = NoCall
    /\ UNCHANGED <<cfg, tracker, tasks, aged, agent, caller, chat, snapshot>>

\* The continuation after `await this.reconciliator.reconcile(...)`.
Reconciled(a) ==
    /\ calls[a].pc = "reconciling"
    /\ LET call == reconciled[a][Len(reconciled[a])]
       IN IF ReconcileAccepts(call.candidates)
          THEN Succeed(a, Reconcile(call.candidates, call.context))
          ELSE Fail(a, "too_few_candidates")
    /\ lastCall' = NoCall
    /\ UNCHANGED <<cfg, q, tracker, tasks, reconciled, aged, agent, caller, chat, snapshot>>

\* cancelJob on each task id, every call counted whatever it returned
RECURSIVE CancelEachAll(_, _)
CancelEachAll(qs, ids) ==
    IF ids = <<>> THEN [q |-> qs, count |-> 0]
    ELSE LET rest == CancelEachAll(QCancel(qs, Head(ids)), Tail(ids))
         IN [q |-> rest.q, count |-> rest.count + 1]

\* cancelJob on each task id in turn: the queue afterwards and how many
\* calls returned true.
RECURSIVE CancelEach(_, _)
CancelEach(qs, ids) ==
    IF ids = <<>> THEN [q |-> qs, count |-> 0]
    ELSE LET rest == CancelEach(QCancel(qs, Head(ids)), Tail(ids))
         IN [q |-> rest.q,
             count |-> rest.count + (IF QCanCancel(qs, Head(ids)) THEN 1 ELSE 0)]

CancellableAlways(status) == status # "none"

Cancellable(status) == status = "running"

\* cancelAnalysis(analysisId) -> bool
CancelAnalysis(a) ==
    /\ IF Cancellable(analyses[a].status)
       THEN LET done == CancelEach(q, analyses[a].taskIds)
            IN /\ q' = done.q
               /\ analyses' = [analyses EXCEPT ![a].status = "cancelled"]
               /\ stats' = [stats EXCEPT !.cancelledTasks = @ + done.count]
               /\ Emit(a, "analysis:cancelled", done.count)
               /\ lastCall' = [NoCall EXCEPT !.op = "cancelAnalysis", !.an = a, !.ok = TRUE,
                                                !.count = done.count]
       ELSE /\ lastCall' = [NoCall EXCEPT !.op = "cancelAnalysis", !.an = a]
            /\ UNCHANGED <<q, analyses, stats, events>>
    /\ UNCHANGED <<cfg, tracker, tasks, calls, reconciled, aged, agent, caller, chat, snapshot>>

\* cancelTask(taskId) -> bool
CancelTask(j) ==
    /\ IF tasks[j] # "none" /\ QCanCancel(q, j)
       THEN /\ q' = QCancel(q, j)
            /\ tasks' = [tasks EXCEPT ![j] = "cancelled"]
            /\ stats' = [stats EXCEPT !.cancelledTasks = @ + 1]
            /\ lastCall' = [NoCall EXCEPT !.op = "cancelTask", !.job = j, !.ok = TRUE]
       ELSE /\ lastCall' = [NoCall EXCEPT !.op = "cancelTask", !.job = j]
            /\ UNCHANGED <<q, tasks, stats>>
    /\ UNCHANGED <<cfg, tracker, analyses, calls, events, reconciled, aged, agent, caller, chat, snapshot>>

\* The loop of destroy over activeAnalyses: cancelAnalysis on each id in turn.
RECURSIVE CancelAnalyses(_, _)
CancelAnalyses(st, ids) ==
    IF ids = <<>> THEN st
    ELSE LET a == Head(ids)
             done == CancelEach(st.q, analyses[a].taskIds)
         IN IF Cancellable(analyses[a].status)
            THEN CancelAnalyses(
                     [q |-> done.q,
                      cancelled |-> st.cancelled + done.count,
                      events |-> [st.events EXCEPT ![a] =
                                     Append(@, [name |-> "analysis:cancelled",
                                                count |-> done.count])]],
                     Tail(ids))
            ELSE CancelAnalyses(st, Tail(ids))

\* destroy(): called between the turns of the event loop, so not while a call
\* runs through the microtasks of its submit loop.
Destroy ==
    /\ ~q.down
    /\ \A a \in Analyses : calls[a].pc # "submitting"
    /\ LET done == CancelAnalyses([q |-> q, cancelled |-> 0, events |-> events],
                                  <<"a1", "a2">>)
       IN /\ q' = QShutdown(done.q)
          /\ stats' = [stats EXCEPT !.cancelledTasks = @ + done.cancelled]
          /\ events' = done.events
    /\ tasks' = [j \in JobIds |-> "none"]
    /\ analyses' = [a \in Analyses |-> NoAnalysis]
    /\ lastCall' = [NoCall EXCEPT !.op = "destroy", !.ok = TRUE]
    /\ UNCHANGED <<cfg, tracker, calls, reconciled, aged, agent, caller, chat, snapshot>>

\* (now - createdAt) > maxAge, for an entry created before the current clock
\* instant (old) or at it; the clock of a behaviour stays below DefaultMaxAge.
Older(old, maxAge) == old /\ maxAge = 0

\* cleanup(maxAge) -> count
Cleanup(maxAge) ==
    LET goneA == {a \in Analyses : /\ analyses[a].status \notin {"none", "running"}
                                   /\ Older(a \in aged.analyses, maxAge)}
        goneT == {j \in JobIds : tasks[j] # "none" /\ Older(j \in aged.jobs, maxAge)}
        goneJ == QExpired(q, aged.jobs, maxAge)
    IN /\ analyses' = [a \in Analyses |-> IF a \in goneA THEN NoAnalysis ELSE analyses[a]]
       /\ tasks' = [j \in JobIds |-> IF j \in goneT THEN "none" ELSE tasks[j]]
       /\ q' = QCleanup(q, aged.jobs, maxAge)
       /\ lastCall' = [NoCall EXCEPT !.op = "cleanup", !.ok = TRUE,
                       !.count = Cardinality(goneA) + Cardinality(goneT)
                                 + Cardinality(goneJ)]
       /\ UNCHANGED <<cfg, tracker, stats, calls, events, reconciled, aged, agent, caller, chat, snapshot>>

\* ------------------------------------------------------------ environment
\* The work function of running job j returns a result.
JobSucceeds(j, action, confidence) ==
    /\ q.jobs[j].state = "running"
    /\ q' = QComplete(q, j, TaskResult(j, q.jobs[j].type, action, confidence))
    /\ lastCall' = NoCall
    /\ UNCHANGED <<cfg, tracker, tasks, analyses, stats, calls, events, reconciled, aged, agent, caller, chat, snapshot>>

\* The work function of running job j throws or rejects.
JobThrows(j) ==
    /\ q.jobs[j].state = "running"
    /\ q' = QAttemptFailed(q, j, "failed")
    /\ lastCall' = NoCall
    /\ UNCHANGED <<cfg, tracker, tasks, analyses, stats, calls, events, reconciled, aged, agent, caller, chat, snapshot>>

\* The timeout timer of running job j fires before its work has settled.
JobTimesOut(j) ==
    /\ q.jobs[j].state = "running"
    /\ q' = QAttemptFailed(q, j, "timeout")
    /\ lastCall' = NoCall
    /\ UNCHANGED <<cfg, tracker, tasks, analyses, stats, calls, events, reconciled, aged, agent, caller, chat, snapshot>>

\* The backoff timer of retried job j fires.
RetryDelayElapsed(j) ==
    /\ InBackoff(q, j)
    /\ q' = QRequeue(q, j)
    /\ lastCall' = NoCall
    /\ UNCHANGED <<cfg, tracker, tasks, analyses, stats, calls, events, reconciled, aged, agent, caller, chat, snapshot>>

\* The clock (Date.now()) moves on: everything that exists is now older than 0 ms.
\* The awaits of the submit loop resume in microtasks, within one clock instant.
Tick ==
    /\ \A a \in Analyses : calls[a].pc # "submitting"
    /\ aged' = [jobs |-> {j \in JobIds : q.jobs[j].state # "none"},
                analyses |-> {a \in Analyses : calls[a].pc # "idle"}]
    /\ aged' # aged
    /\ lastCall' = NoCall
    /\ UNCHANGED <<cfg, q, tracker, tasks, analyses, stats, calls, events, reconciled, agent, caller, chat, snapshot>>

\* Direct use of the queue (orchestrator.jobQueue): addJob, waitForJob, cancelJob.
QueueSubmit(priority, maxRetries, owner) ==
    /\ SubmittedCount(q.jobs) + Reserved < MaxJobs
    /\ q' = QSubmit(q, SubmittedCount(q.jobs) + 1, priority, maxRetries, "direct", owner)
    /\ lastCall' = NoCall
    /\ UNCHANGED <<cfg, tracker, tasks, analyses, stats, calls, events, reconciled, aged, agent, caller, chat, snapshot>>

QueueAwait(j, w) ==
    /\ q.jobs[j].state \in ActiveStates \cup TerminalStates
    /\ w \notin q.awaiting[j]
    /\ q.obs[j][w] = <<>>
    /\ q' = QAwait(q, j, w)
    /\ lastCall' = NoCall
    /\ UNCHANGED <<cfg, tracker, tasks, analyses, stats, calls, events, reconciled, aged, agent, caller, chat, snapshot>>

QueueCancel(j) ==
    /\ q' = QCancel(q, j)
    /\ lastCall' = NoCall
    /\ UNCHANGED <<cfg, tracker, tasks, analyses, stats, calls, events, reconciled, aged, agent, caller, chat, snapshot>>

\* The timeout timer of running job j fires while its work goes on.
JobTimesOutWorking(j) ==
    /\ q.jobs[j].state = "running"
    /\ q' = QAbandon(QTimedOut(q, j), j)
    /\ lastCall' = NoCall
    /\ UNCHANGED <<cfg, tracker, tasks, analyses, stats, calls, events, reconciled, aged, agent, caller, chat, snapshot>>

\* jobQueue.cancelJob(j) -> bool; the work of a Running job goes on.
CancelJob(j) ==
    /\ q' = IF q.jobs[j].state = "running" THEN QAbandon(QCancel(q, j), j)
            ELSE QCancel(q, j)
    /\ lastCall' = NoCall
    /\ UNCHANGED <<cfg, tracker, tasks, analyses, stats, calls, events, reconciled, aged, agent, caller, chat, snapshot>>

\* Abandoned work of job j settles, with a value (ok) or with an error.
LateResult(j, ok) ==
    /\ q.stale[j] > 0
    /\ q' = QLateResult(q, j, ok)
    /\ lastCall' = NoCall
    /\ UNCHANGED <<cfg, tracker, tasks, analyses, stats, calls, events, reconciled, aged, agent, caller, chat, snapshot>>

\* jobQueue.addJob under the next free identifier.
QueueSubmitFresh(j, priority) ==
    /\ q.jobs[j].state = "none"
    /\ \A k \in JobIds : k < j => q.jobs[k].state # "none"
    /\ q' = QSubmit(q, j, priority, 0, "direct", "a2")
    /\ lastCall' = NoCall
    /\ UNCHANGED <<cfg, tracker, tasks, analyses, stats, calls, events, reconciled, aged, agent, caller, chat, snapshot>>

\* Cleanup drops the record of settled job j, a job submitted directly that
\* no executeParallelAnalysis call awaits.
QueueForget(j) ==
    /\ q.jobs[j].state \in TerminalStates
    /\ q.jobs[j].type = "direct"
    /\ q' = QForget(q, j)
    /\ lastCall' = NoCall
    /\ UNCHANGED <<cfg, tracker, tasks, analyses, stats, calls, events, reconciled, aged, agent, caller, chat, snapshot>>

\* The running attempt of job j ends: its work settles, or throws.
JobEnds(j) ==
    \/ \E action \in {"click"} : JobSucceeds(j, action, 60)
    \/ JobThrows(j)

\* ---------------------------------------------------------- Enhanced Agent
\* this.maxRetries = 3
AgentMaxRetries == 3
\* const delay = attempt * 2000
RetryDelayUnit == 2000

\* The invocations of loop() that can be in flight at once.
Loops == {1, 2}

NoLoop == [pc |-> "ended", attempt |-> 0, delay |-> 0, done |-> FALSE]

\* session: "none" before the first start, "open" once startSession was called,
\* then the status of the last contextManager.endSession(status) call.
NoAgent == [active |-> FALSE, waiting |-> FALSE, question |-> "none", retryCount |-> 0,
            session |-> "none", loops |-> [i \in Loops |-> NoLoop]]

\* handleStuckState(reason, ...): isWaitingForUser and pendingQuestion are set.
HandleStuckState(ag, reason) == [ag EXCEPT !.waiting = TRUE, !.question = reason]

\* loop(), run as invocation i, from its entry to its first await; looping is
\* what contextManager.detectLoop(3) answers.
LoopEntry(ag, i, looping) ==
    IF ~ag.active \/ ag.waiting THEN [ag EXCEPT !.loops[i] = NoLoop]
    ELSE IF looping
         THEN [HandleStuckState(ag, "loop_detected") EXCEPT !.loops[i] = NoLoop]
         ELSE [ag EXCEPT !.loops[i] = [NoLoop EXCEPT !.pc = "thinking"]]

\* stop(): if (this.currentSession) endSession(this.active ? 'cancelled' :
\* 'completed'); then the flags are cleared and super.stop() clears active.
Stopped(ag) ==
    [ag EXCEPT !.active = FALSE, !.waiting = FALSE, !.question = "none",
               !.session = IF @ = "none" THEN "none"
                           ELSE IF ag.active THEN "cancelled" ELSE "completed"]

\* start(goal)
AgentStart(i, looping) ==
    /\ agent.loops[i].pc = "ended"
    /\ agent' = LoopEntry([agent EXCEPT !.active = TRUE, !.retryCount = 0,
                                        !.session = "open"], i, looping)
    /\ UNCHANGED <<orchestrator, caller, chat>>

AgentStop ==
    /\ agent' = Stopped(agent)
    /\ UNCHANGED <<orchestrator, caller, chat>>

\* loop() after `await this.askGeminiEnhanced(...)`: executeWithRetry begins
\* and calls executeAction for attempt 1 (done: the plan's action is 'done').
Think(i, done) ==
    /\ agent.loops[i].pc = "thinking"
    /\ agent' = IF ~agent.active THEN [agent EXCEPT !.loops[i] = NoLoop]
                ELSE [agent EXCEPT !.retryCount = 1,
                                   !.loops[i] = [NoLoop EXCEPT !.pc = "executing",
                                                               !.attempt = 1,
                                                               !.done = done]]
    /\ UNCHANGED <<orchestrator, caller, chat>>

\* The state capture of loop() throws: the catch block asks the user.
ThinkFails(i) ==
    /\ agent.loops[i].pc = "thinking"
    /\ agent' = [HandleStuckState(agent, "error") EXCEPT !.loops[i] = NoLoop]
    /\ UNCHANGED <<orchestrator, caller, chat>>

\* executeAction of the current attempt resolved.
ActionSucceeds(i) ==
    /\ agent.loops[i].pc = "executing"
    /\ agent' = IF agent.loops[i].done
                THEN [Stopped([agent EXCEPT !.retryCount = 0]) EXCEPT !.loops[i] = NoLoop]
                ELSE [agent EXCEPT !.retryCount = 0,
                                   !.loops[i] = [NoLoop EXCEPT !.pc = "succeeded"]]
    /\ UNCHANGED <<orchestrator, caller, chat>>

\* After `await this.sleep(2000)`: this.loop().
ContinueLoop(i, looping) ==
    /\ agent.loops[i].pc = "succeeded"
    /\ agent' = LoopEntry(agent, i, looping)
    /\ UNCHANGED <<orchestrator, caller, chat>>

\* executeAction of the current attempt threw: the catch block.
ActionFails(i) ==
    /\ agent.loops[i].pc = "executing"
    /\ agent' = IF agent.loops[i].attempt < AgentMaxRetries
                THEN [agent EXCEPT !.loops[i].pc = "backoff",
                                   !.loops[i].delay = agent.loops[i].attempt * RetryDelayUnit]
                ELSE [HandleStuckState(agent, "max_retries") EXCEPT !.loops[i] = NoLoop]
    /\ UNCHANGED <<orchestrator, caller, chat>>

\* `await this.sleep(delay)` is over: the next attempt calls executeAction.
BackoffElapsed(i) ==
    /\ agent.loops[i].pc = "backoff"
    /\ agent' = [agent EXCEPT !.retryCount = agent.loops[i].attempt + 1,
                              !.loops[i].pc = "executing",
                              !.loops[i].attempt = @ + 1,
                              !.loops[i].delay = 0]
    /\ UNCHANGED <<orchestrator, caller, chat>>

\* handleUserResponse(response) with a response that asks for no page action
\* ('skip', 'try different', guidance): with no question pending it goes to
\* handleGeneralUserInput; either way it ends in this.loop(), invocation i.
UserResponse(i, different, looping) ==
    /\ agent.loops[i].pc = "ended"
    /\ agent' = LoopEntry([agent EXCEPT !.waiting = FALSE, !.question = "none",
                                        !.retryCount = IF different /\ agent.question # "none"
                                                       THEN 0 ELSE @],
                          i, looping)
    /\ UNCHANGED <<orchestrator, caller, chat>>

\* ------------------------------------------------------------ Chat Overlay
Senders == {"agent", "user"}

\* addMessage(sender, message): the unread count goes up for an agent message
\* while the container has the class 'collapsed'.
AddMessage(sender) ==
    /\ Len(chat.messages) < MaxMessages
    /\ chat' = [chat EXCEPT !.messages = Append(@, sender),
                            !.since = Append(@, sender),
                            !.unreadCount = IF ~chat.expanded /\ sender = "agent"
                                            THEN @ + 1 ELSE @]
    /\ UNCHANGED <<orchestrator, agent, caller>>

\* expand() that leaves the unread count as it is
ExpandKeepsCount ==
    /\ chat' = [chat EXCEPT !.expanded = TRUE]
    /\ UNCHANGED <<orchestrator, agent, caller>>

\* expand()
Expand ==
    /\ chat' = [chat EXCEPT !.expanded = TRUE, !.unreadCount = 0]
    /\ UNCHANGED <<orchestrator, agent, caller>>

\* collapse(): the classes change, the unread count stays.
Collapse ==
    /\ chat' = [chat EXCEPT !.expanded = FALSE,
                            !.since = IF chat.expanded THEN <<>> ELSE @]
    /\ UNCHANGED <<orchestrator, agent, caller>>

\* toggle()
Toggle == IF chat.expanded THEN Collapse ELSE Expand

\* clear()
Clear ==
    /\ chat' = [chat EXCEPT !.messages = <<>>, !.since = <<>>, !.unreadCount = 0]
    /\ UNCHANGED <<orchestrator, agent, caller>>

\* ------------------------------------------------------------------ inputs
ConstructorOptions ==
    [maxWorkers : {0}, maxConcurrent : {0, 1, 2},
     enableVisualAnalysis : {Some(FALSE)}, enableTemporalAnalysis : {Some(FALSE)}]

Requests == [screenshot : {FALSE}, viewport : {FALSE}, domNodes : {FALSE}]

TypeChoices ==
    {None, Some(<<>>), Some(<<TaskType.DOM_ANALYSIS>>),
     Some(<<TaskType.PATTERN_MATCHING, TaskType.COMBINED_ANALYSIS>>),
     Some(<<TaskType.DOM_ANALYSIS, TaskType.VISION_ANALYSIS, TaskType.PATTERN_MATCHING>>)}

Options == [analysisTypes : TypeChoices, priority : {0},
            useVisualAnalysis : {None}, useTemporalAnalysis : {None}]

ActionChoices == {"click"}
ConfidenceChoices == {NoConf, 0, 60}
MaxAgeChoices == {0, DefaultMaxAge}
\* The one call the orchestrator specifications follow; the other id stays unknown.
Callers == {"a1"}

\* ----------------------------------------------------------- specification
InitWith(options) ==
    /\ cfg = Constructed(options)
    /\ q = [opts |-> JobQueueOptions(cfg.maxWorkers, cfg.maxConcurrent),
            jobs |-> [j \in JobIds |-> NoJob],
            ready |-> <<>>,
            awaiting |-> [j \in JobIds |-> {}],
            obs |-> [j \in JobIds |-> [w \in Waiters |-> <<>>]],
            stale |-> [j \in JobIds |-> 0],
            discarded |-> [j \in JobIds |-> {}],
            down |-> FALSE]
    /\ tracker = FALSE
    /\ snapshot = "none"
    /\ tasks = [j \in JobIds |-> "none"]
    /\ analyses = [a \in Analyses |-> NoAnalysis]
    /\ stats = [totalTasks |-> 0, completedTasks |-> 0, failedTasks |-> 0,
                cancelledTasks |-> 0]
    /\ calls = [a \in Analyses |-> NoCallState]
    /\ events = [a \in Analyses |-> <<>>]
    /\ reconciled = [a \in Analyses |-> <<>>]
    /\ aged = [jobs |-> {}, analyses |-> {}]
    /\ lastCall = NoCall
    /\ agent = NoAgent
    /\ caller = NoCaller
    /\ chat = NoChat

Init == \E options \in ConstructorOptions : InitWith(options)

\* The orchestrator: one executeParallelAnalysis call, its jobs, cancelAnalysis.
Next ==
    \/ \E a \in Callers, req \in Requests, opts \in Options : ExecStart(a, req, opts)
    \/ \E a \in Callers : ExecLoop(a)
    \/ \E a \in Callers : Aggregate(a)
    \/ \E a \in Callers : Reconciled(a)
    \/ \E a \in Analyses : CancelAnalysis(a)
    \/ \E j \in JobIds, action \in ActionChoices, c \in ConfidenceChoices :
           JobSucceeds(j, action, c)
    \/ \E j \in JobIds : JobThrows(j)
    \/ \E j \in JobIds : JobTimesOut(j)
    \/ \E j \in JobIds : RetryDelayElapsed(j)

Spec == Init /\ [][Next]_vars

\* The orchestrator with cancelTask, cleanup and the clock.
CleanOptions == [analysisTypes : {None, Some(<<TaskType.DOM_ANALYSIS>>)}, priority : {0},
                 useVisualAnalysis : {None}, useTemporalAnalysis : {None}]

NextClean ==
    \/ \E a \in Callers, req \in Requests, opts \in CleanOptions : ExecStart(a, req, opts)
    \/ \E a \in Callers : ExecLoop(a)
    \/ \E a \in Callers : Aggregate(a)
    \/ \E a \in Callers : Reconciled(a)
    \/ \E j \in JobIds : CancelTask(j)
    \/ \E maxAge \in MaxAgeChoices : Cleanup(maxAge)
    \/ \E j \in JobIds, action \in ActionChoices : JobSucceeds(j, action, 60)
    \/ \E j \in JobIds : JobThrows(j)
    \/ \E j \in JobIds : RetryDelayElapsed(j)
    \/ Tick

SpecClean == Init /\ [][NextClean]_vars

\* The Job Queue used directly (orchestrator.jobQueue) by the callers of two
\* analyses in turn, each job with no retry or with the queue's retry budget.
SubmitterOf(id) == IF id % 2 = 1 THEN "a1" ELSE "a2"

NextQueue ==
    \/ \E n \in {0, q.opts.maxRetries} :
           QueueSubmit(Priority.MEDIUM, n, SubmitterOf(SubmittedCount(q.jobs) + 1))
    \/ \E j \in JobIds : QueueCancel(j)
    \/ \E j \in JobIds, action \in ActionChoices : JobSucceeds(j, action, 60)
    \/ \E j \in JobIds : JobThrows(j)
    \/ \E j \in JobIds : JobTimesOut(j)
    \/ \E j \in JobIds : RetryDelayElapsed(j)

SpecQueue == Init /\ [][NextQueue]_vars

\* The Job Queue with jobs of two priorities and one retry each.
NextPriority ==
    \/ \E p \in {Priority.LOW, Priority.HIGH} :
           QueueSubmit(p, 1, SubmitterOf(SubmittedCount(q.jobs) + 1))
    \/ \E j \in JobIds : QueueCancel(j)
    \/ \E j \in JobIds, action \in ActionChoices : JobSucceeds(j, action, 60)
    \/ \E j \in JobIds : JobThrows(j)
    \/ \E j \in JobIds : RetryDelayElapsed(j)

SpecPriority == Init /\ [][NextPriority]_vars

\* The orchestrator's jobs awaited by an outside caller as well.
AwaitOptions == [analysisTypes : {None, Some(<<TaskType.DOM_ANALYSIS>>)}, priority : {0},
                 useVisualAnalysis : {None}, useTemporalAnalysis : {None}]

NextAwait ==
    \/ \E a \in Callers, req \in Requests, opts \in AwaitOptions : ExecStart(a, req, opts)
    \/ \E a \in Callers : ExecLoop(a)
    \/ \E a \in Callers : Aggregate(a)
    \/ \E a \in Callers : Reconciled(a)
    \/ \E j \in JobIds : QueueAwait(j, "ext")
    \/ \E j \in JobIds : QueueCancel(j)
    \/ \E j \in JobIds, action \in ActionChoices : JobSucceeds(j, action, 60)
    \/ \E j \in JobIds : JobThrows(j)
    \/ \E j \in JobIds : JobTimesOut(j)
    \/ \E j \in JobIds : RetryDelayElapsed(j)

SpecAwait == Init /\ [][NextAwait]_vars

\* The orchestrator's jobs with work that outlives its attempt: timeouts and
\* cancellations leave the work running, and its result arrives late.
NextLate ==
    \/ \E a \in Callers, req \in Requests, opts \in AwaitOptions : ExecStart(a, req, opts)
    \/ \E a \in Callers : ExecLoop(a)
    \/ \E a \in Callers : Aggregate(a)
    \/ \E a \in Callers : Reconciled(a)
    \/ \E j \in JobIds : QueueAwait(j, "ext")
    \/ \E j \in JobIds : CancelJob(j)
    \/ \E j \in JobIds, action \in ActionChoices : JobSucceeds(j, action, 60)
    \/ \E j \in JobIds : JobThrows(j)
    \/ \E j \in JobIds : JobTimesOutWorking(j)
    \/ \E j \in JobIds : RetryDelayElapsed(j)
    \/ \E j \in JobIds, ok \in BOOLEAN : LateResult(j, ok)

SpecLate == Init /\ [][NextLate]_vars

\* The Job Queue in steady use: one or two slots, jobs of two priorities
\* without retry, settled jobs forgotten and new ones submitted without end.
\* Every running attempt ends: its work settles or its timeout fires.
InitFair ==
    \E n \in {1, 2} :
        InitWith([maxWorkers |-> 0, maxConcurrent |-> n,
                  enableVisualAnalysis |-> Some(FALSE),
                  enableTemporalAnalysis |-> Some(FALSE)])

NextFair ==
    \/ \E j \in JobIds, p \in {Priority.LOW, Priority.HIGH} : QueueSubmitFresh(j, p)
    \/ \E j \in JobIds : QueueCancel(j)
    \/ \E j \in JobIds : JobEnds(j)
    \/ \E j \in JobIds : QueueForget(j)

SpecFair == InitFair /\ [][NextFair]_vars /\ \A j \in JobIds : WF_vars(JobEnds(j))

\* One executeParallelAnalysis call of default priority on a queue with one
\* slot, beside the HIGH jobs of competing analyses, which come without end.
\* Every running attempt ends (it settles, throws or times out), every backoff
\* delay elapses and every continuation of the call is run.
LiveOptions == [analysisTypes : {Some(<<TaskType.DOM_ANALYSIS>>)}, priority : {0},
                useVisualAnalysis : {None}, useTemporalAnalysis : {None}]

NextLive ==
    \/ \E a \in Callers, req \in Requests, opts \in LiveOptions : ExecStart(a, req, opts)
    \/ \E a \in Callers : ExecLoop(a)
    \/ \E a \in Callers : Aggregate(a)
    \/ \E a \in Callers : CancelAnalysis(a)
    \/ \E j \in JobIds : QueueSubmitFresh(j, Priority.HIGH)
    \/ \E j \in JobIds : QueueForget(j)
    \/ \E j \in JobIds : JobEnds(j)
    \/ \E j \in JobIds : JobTimesOut(j)
    \/ \E j \in JobIds : RetryDelayElapsed(j)

SpecLive ==
    /\ \E n \in {1} : InitWith([maxWorkers |-> 0, maxConcurrent |-> n,
                                 enableVisualAnalysis |-> Some(FALSE),
                                 enableTemporalAnalysis |-> Some(FALSE)])
    /\ [][NextLive]_vars
    /\ WF_vars(\E j \in JobIds : JobEnds(j) \/ JobTimesOut(j))
    /\ WF_vars(\E j \in JobIds : RetryDelayElapsed(j))
    /\ WF_vars(\E a \in Callers : ExecLoop(a) \/ Aggregate(a))

\* The orchestrator with destroy.
NextDestroy ==
    \/ \E a \in Callers, req \in Requests, opts \in AwaitOptions : ExecStart(a, req, opts)
    \/ \E a \in Callers : ExecLoop(a)
    \/ \E a \in Callers : Aggregate(a)
    \/ \E a \in Callers : Reconciled(a)
    \/ \E j \in JobIds, action \in ActionChoices : JobSucceeds(j, action, 60)
    \/ \E j \in JobIds : JobThrows(j)
    \/ \E j \in JobIds : RetryDelayElapsed(j)
    \/ Destroy

SpecDestroy == Init /\ [][NextDestroy]_vars

\* The enhanced agent: start, stop, its loops and the user's responses.
NextAgent ==
    \/ \E i \in Loops, looping \in BOOLEAN : AgentStart(i, looping)
    \/ AgentStop
    \/ \E i \in Loops, done \in BOOLEAN : Think(i, done)
    \/ \E i \in Loops : ThinkFails(i)
    \/ \E i \in Loops : ActionSucceeds(i)
    \/ \E i \in Loops, looping \in BOOLEAN : ContinueLoop(i, looping)
    \/ \E i \in Loops : ActionFails(i)
    \/ \E i \in Loops : BackoffElapsed(i)
    \/ \E i \in Loops, different \in BOOLEAN, looping \in BOOLEAN :
           UserResponse(i, different, looping)

\* The agent before start; the orchestrator beside it is idle.
InitAgent ==
    InitWith([maxWorkers |-> 0, maxConcurrent |-> 0,
              enableVisualAnalysis |-> None, enableTemporalAnalysis |-> None])

SpecAgent == InitAgent /\ [][NextAgent]_vars

\* The task plan on its own: executeParallelAnalysis from its entry to the end
\* of the plan derivation (state capture and analysisTypes), for every
\* combination of toggles, request fields and options, over two calls in turn.
PlanAnalysis(a, req, opts) ==
    /\ calls[a].pc = "idle"
    /\ LET capture == UseTemporal(opts) /\ cfg.enableTemporalAnalysis
           hasState == tracker \/ capture
       IN /\ tracker' = hasState
          /\ snapshot' = (IF capture THEN a ELSE snapshot)
          /\ calls' = [calls EXCEPT ![a] =
                         [NoCallState EXCEPT !.pc = "planned",
                                             !.types = DerivePlan(req, opts, hasState),
                                             !.priority = opts.priority,
                                             !.context = a]]
    /\ lastCall' = NoCall
    /\ UNCHANGED <<cfg, q, tasks, analyses, stats, events, reconciled, aged, agent, caller, chat>>

\* options.analysisTypes of the caller after executeParallelAnalysis(req, opts):
\* `let analysisTypes = options.analysisTypes || [...]` holds the caller's own
\* array; the visual branch replaces it by a new array, the temporal branch
\* pushes onto whichever array analysisTypes holds.
TypesAfterCall(req, opts, hasState) ==
    IF /\ opts.analysisTypes # None
       /\ ~(UseVisual(opts) /\ req.screenshot /\ req.viewport)
       /\ UseTemporal(opts)
    THEN Some(DerivePlan(req, opts, hasState))
    ELSE opts.analysisTypes

\* A caller builds the request and the options object it passes to every call.
CallerBuilds(req, opts) ==
    /\ ~caller.built
    /\ caller' = [built |-> TRUE, request |-> req, options |-> opts]
    /\ UNCHANGED <<orchestrator, agent, chat>>

\* executeParallelAnalysis(caller.request, caller.options), from its entry to
\* the end of the plan derivation.
PlanShared(a) ==
    /\ caller.built
    /\ calls[a].pc = "idle"
    /\ LET opts == caller.options
           capture == UseTemporal(opts) /\ cfg.enableTemporalAnalysis
           hasState == tracker \/ capture
       IN /\ tracker' = hasState
          /\ snapshot' = (IF capture THEN a ELSE snapshot)
          /\ calls' = [calls EXCEPT ![a] =
                         [NoCallState EXCEPT !.pc = "planned",
                                             !.types = DerivePlan(caller.request, opts, hasState),
                                             !.priority = opts.priority,
                                             !.context = a]]
          /\ caller' = [caller EXCEPT !.options.analysisTypes =
                                          TypesAfterCall(caller.request, opts, hasState)]
    /\ lastCall' = NoCall
    /\ UNCHANGED <<cfg, q, tasks, analyses, stats, events, reconciled, aged, agent, chat>>

PlanConstructorOptions ==
    [maxWorkers : {0}, maxConcurrent : {0},
     enableVisualAnalysis : {None, Some(FALSE)},
     enableTemporalAnalysis : {None, Some(FALSE)}]

PlanRequests == [screenshot : BOOLEAN, viewport : BOOLEAN, domNodes : BOOLEAN]

PlanOptions ==
    [analysisTypes : {None, Some(<<>>), Some(<<TaskType.PATTERN_MATCHING>>)},
     priority : {0},
     useVisualAnalysis : {None, Some(TRUE), Some(FALSE)},
     useTemporalAnalysis : {None, Some(TRUE), Some(FALSE)}]

InitPlan == \E options \in PlanConstructorOptions : InitWith(options)

NextPlan ==
    \E a \in Analyses, req \in PlanRequests, opts \in PlanOptions : PlanAnalysis(a, req, opts)

SpecPlan == InitPlan /\ [][NextPlan]_vars

\* Two calls in turn by a caller that passes the same request and the same
\* options object to both.
NextShared ==
    \/ \E req \in PlanRequests, opts \in PlanOptions : CallerBuilds(req, opts)
    \/ \E a \in Analyses : PlanShared(a)

SpecShared == InitPlan /\ [][NextShared]_vars

\* The Result Reconciliator on its own: reconcile applied to two or more
\* candidates of different sources; two or three candidates come in every
\* order, four in the order of ReconcileSources or in the reverse order.
ReconcileSources == <<"dom", "vision", "heuristic", "pattern">>

ProposalChoices == [action : {"click", "scroll"}, confidence : {70, 75, 100}]

Candidate(src, proposal) ==
    [NoPayload EXCEPT !.source = src, !.action = proposal.action,
                      !.selector = SelectorOf(proposal.action),
                      !.confidence = proposal.confidence,
                      !.supplied = proposal.confidence, !.reason = src]

SourceOrders(n) ==
    {src \in [1..n -> 1..Len(ReconcileSources)] :
        /\ \A i, k \in 1..n : src[i] = src[k] => i = k
        /\ n = Len(ReconcileSources)
           => \/ \A i \in 1..n : src[i] = i
              \/ \A i \in 1..n : src[i] = n + 1 - i}

ReconcileCandidates(a, cands) ==
    /\ calls[a].pc = "idle"
    /\ reconciled' = [reconciled EXCEPT ![a] =
                          Append(@, [candidates |-> cands, context |-> a])]
    /\ calls' = [calls EXCEPT ![a] =
                   IF ReconcileAccepts(cands)
                   THEN [NoCallState EXCEPT !.pc = "resolved", !.context = a,
                                            !.result = Reconcile(cands, a)]
                   ELSE [NoCallState EXCEPT !.pc = "rejected", !.context = a,
                                            !.error = "too_few_candidates"]]
    /\ lastCall' = NoCall
    /\ UNCHANGED <<cfg, q, tracker, tasks, analyses, stats, events, aged, agent, caller, chat, snapshot>>

InitReconcile ==
    InitWith([maxWorkers |-> 0, maxConcurrent |-> 0,
              enableVisualAnalysis |-> None, enableTemporalAnalysis |-> None])

NextReconcile ==
    /\ calls["a1"].pc = "idle"
    /\ \E n \in 2..Len(ReconcileSources) :
           \E src \in SourceOrders(n), proposal \in [1..n -> ProposalChoices] :
               ReconcileCandidates("a1", [i \in 1..n |->
                                             Candidate(ReconcileSources[src[i]],
                                                       proposal[i])])

SpecReconcile == InitReconcile /\ [][NextReconcile]_vars

\* The scenario plan [A, B, C] whose three tasks all succeed.
ScenarioOptions ==
    [analysisTypes : {Some(<<TaskType.DOM_ANALYSIS, TaskType.VISION_ANALYSIS,
                             TaskType.PATTERN_MATCHING>>)},
     priority : {0}, useVisualAnalysis : {None}, useTemporalAnalysis : {None}]

NextScenario ==
    \/ \E a \in Callers, req \in Requests, opts \in ScenarioOptions : ExecStart(a, req, opts)
    \/ \E a \in Callers : ExecLoop(a)
    \/ \E a \in Callers : Aggregate(a)
    \/ \E a \in Callers : Reconciled(a)
    \/ \E j \in JobIds, action \in {"click", "scroll"}, c \in {60, 70, 90} :
           JobSucceeds(j, action, c)

SpecScenario == Init /\ [][NextScenario]_vars

\* The orchestrator with plans of one to three tasks, beside a caller that
\* uses the reconciliator directly (orchestrator.reconciliator) with none, one
\* or two candidates.
GuardOptions ==
    [analysisTypes : {Some(<<TaskType.DOM_ANALYSIS>>),
                      Some(<<TaskType.DOM_ANALYSIS, TaskType.VISION_ANALYSIS>>),
                      Some(<<TaskType.DOM_ANALYSIS, TaskType.VISION_ANALYSIS,
                             TaskType.PATTERN_MATCHING>>)},
     priority : {0}, useVisualAnalysis : {None}, useTemporalAnalysis : {None}]

GuardProposals == [action : {"click", "scroll"}, confidence : {70}]

GuardCandidates ==
    {<<>>}
    \cup {<<Candidate(src, p)>> : src \in {"dom", "vision"}, p \in GuardProposals}
    \cup {<<Candidate("dom", p), Candidate("vision", r)>> : p, r \in GuardProposals}

NextGuard ==
    \/ \E a \in Callers, req \in Requests, opts \in GuardOptions : ExecStart(a, req, opts)
    \/ \E a \in Callers : ExecLoop(a)
    \/ \E a \in Callers : Aggregate(a)
    \/ \E a \in Callers : Reconciled(a)
    \/ \E j \in JobIds, action \in ActionChoices : JobSucceeds(j, action, 60)
    \/ \E j \in JobIds : JobThrows(j)
    \/ \E j \in JobIds : RetryDelayElapsed(j)
    \/ \E a \in Analyses \ Callers, cands \in GuardCandidates : ReconcileCandidates(a, cands)

SpecGuard == Init /\ [][NextGuard]_vars

\* The decision a call resolves with: an orchestrator with temporal analysis
\* (state tracker and transition predictor present), plans of structural
\* analysis and transition prediction, results as the task functions build them.
ActionEnum == {"click", "type", "scroll", "navigate", "wait", "done", "ask", "continue"}

\* data.proposedAction?.action of the request: any string of the caller's.
ProposedActions == {"click", "hover"}

\* The actions a task function of the type can return: executeDomAnalysis
\* returns wait or click, executeTransitionPrediction the proposed action.
TaskActions(type) ==
    IF type = TaskType.TRANSITION_PREDICTION THEN ProposedActions ELSE {"wait", "click"}

DecisionOptions ==
    [analysisTypes : {Some(<<TaskType.TRANSITION_PREDICTION>>),
                      Some(<<TaskType.DOM_ANALYSIS, TaskType.TRANSITION_PREDICTION>>)},
     priority : {0}, useVisualAnalysis : {Some(FALSE)}, useTemporalAnalysis : {Some(FALSE)}]

InitDecision ==
    InitWith([maxWorkers |-> 0, maxConcurrent |-> 0,
              enableVisualAnalysis |-> Some(FALSE), enableTemporalAnalysis |-> None])

NextDecision ==
    \/ \E a \in Callers, req \in Requests, opts \in DecisionOptions : ExecStart(a, req, opts)
    \/ \E a \in Callers : ExecLoop(a)
    \/ \E a \in Callers : Aggregate(a)
    \/ \E a \in Callers : Reconciled(a)
    \/ \E j \in JobIds :
           \E action \in TaskActions(q.jobs[j].type), c \in {60, 90} :
               JobSucceeds(j, action, c)
    \/ \E j \in JobIds : JobThrows(j)
    \/ \E j \in JobIds : RetryDelayElapsed(j)

SpecDecision == InitDecision /\ [][NextDecision]_vars

\* ------------------------------------------------------------------ claims
OwnJobs(a) == {j \in JobIds : q.jobs[j].owner = a}

CallJobs(a) == {calls[a].taskIds[i] : i \in 1..Len(calls[a].taskIds)}

\* The call of analysis a went through aggregation (it did not stop in the
\* submit loop).
Aggregated(a) ==
    /\ calls[a].pc \in {"reconciling", "resolved", "rejected"}
    /\ calls[a].error \notin {"unknown_type", "queue_shutdown"}

CompletedJobs(a) == {j \in CallJobs(a) : q.jobs[j].state = "completed"}

\* C1: at every moment the number of Running jobs of the one queue, over the
\* jobs of all analyses, is at most the configured maxConcurrent.
C1_RunningWithinBudget == RunningCount(q.jobs) <= cfg.maxConcurrent

\* The budget binds: it is used up by jobs of two analyses while a third job
\* waits in the ready list.
C1_Witness ==
    /\ RunningCount(q.jobs) = cfg.maxConcurrent
    /\ q.ready # <<>>
    /\ \E j \in OwnJobs("a1"), k \in OwnJobs("a2") :
           q.jobs[j].state = "running" /\ q.jobs[k].state = "running"

\* C2: when no job of an analysis ended with success (all failed, timed out or
\* were cancelled) the call is rejected with the all-failed error, the
\* reconciliator is not invoked and the analysis has status failed.
C2_AllFailedRejects ==
    \A a \in Analyses :
        (/\ Aggregated(a)
         /\ \A j \in CallJobs(a) : q.jobs[j].state \in {"failed", "timeout", "cancelled"})
        => /\ calls[a].pc = "rejected"
           /\ calls[a].error = "all_failed"
           /\ reconciled[a] = <<>>
           /\ analyses[a].status = "failed"

C2_Witness ==
    \E a \in Analyses :
        /\ calls[a].pc = "rejected" /\ calls[a].error = "all_failed"
        /\ Len(calls[a].taskIds) = 2
        /\ q.jobs[calls[a].taskIds[1]].state = "failed"
        /\ q.jobs[calls[a].taskIds[2]].state = "timeout"

C4_ReconcilesSuccessful ==
    \A a \in Analyses :
        /\ Len(reconciled[a]) <= 1
        /\ (Aggregated(a) /\ Cardinality(CompletedJobs(a)) >= 2)
           => /\ Len(reconciled[a]) = 1
              /\ LET call == reconciled[a][1]
                 IN /\ call.context = a
                    /\ Len(call.candidates) = Cardinality(CompletedJobs(a))
                    /\ {call.candidates[i].job : i \in 1..Len(call.candidates)}
                           = CompletedJobs(a)
                    /\ \A i \in 1..Len(call.candidates) :
                           call.candidates[i] = q.jobs[call.candidates[i].job].value
                    /\ calls[a].pc = "resolved"
                       => calls[a].result = Reconcile(call.candidates, call.context)

C4_Witness ==
    \E a \in Analyses :
        /\ calls[a].pc = "resolved"
        /\ Len(calls[a].taskIds) = 3
        /\ Cardinality(CompletedJobs(a)) = 2
        /\ Len(reconciled[a]) = 1
        /\ calls[a].result.source = "reconciled"

\* C5: a call does not aggregate, resolve or reject before every job it
\* submitted has reached a terminal outcome.
C5_WaitsForAllJobs ==
    \A a \in Analyses :
        calls[a].pc \in {"reconciling", "resolved", "rejected"}
        => \A j \in OwnJobs(a) : q.jobs[j].state \in TerminalStates

\* Position of job j in the ready list, behind its end when j is not in it.
ReadyPos(ready, j) ==
    IF \E i \in 1..Len(ready) : ready[i] = j
    THEN CHOOSE i \in 1..Len(ready) : ready[i] = j
    ELSE Len(ready) + 1

\* C6: whenever the queue starts a job, no job left in the ready list has a
\* higher priority, and none of equal priority was enqueued earlier.
C6_PriorityThenFifo ==
    [][\A j \in JobIds :
          q'.jobs[j].starts > q.jobs[j].starts
          => \A i \in 1..Len(q'.ready) :
                 LET k == q'.ready[i]
                 IN \/ q.jobs[k].prio < q'.jobs[j].prio
                    \/ /\ q.jobs[k].prio = q'.jobs[j].prio
                       /\ ReadyPos(q.ready, j) < ReadyPos(q.ready, k)]_vars

\* A HIGH job has started while a LOW job submitted before it still waits
\* for its first start.
C6_Witness ==
    \E j, k \in JobIds :
        /\ k < j
        /\ q.jobs[k].prio = Priority.LOW /\ q.jobs[j].prio = Priority.HIGH
        /\ q.jobs[j].starts >= 1 /\ q.jobs[k].starts = 0
        /\ q.ready = <<k>>

\* C7: a job with maxRetries N whose every attempt fails is started exactly
\* N + 1 times and is then terminally failed; with the orchestrator's queue
\* configuration that is 3 attempts.
C7_RetryBudget ==
    \A j \in JobIds :
        /\ q.jobs[j].starts <= q.jobs[j].maxRetries + 1
        /\ q.jobs[j].state \in {"failed", "timeout"}
           => /\ q.jobs[j].starts = q.jobs[j].maxRetries + 1
              /\ q.jobs[j].maxRetries = q.opts.maxRetries => q.jobs[j].starts = 3

C7_Witness ==
    \E j, k \in JobIds :
        /\ q.jobs[j].state = "failed" /\ q.jobs[j].maxRetries = 2
        /\ q.jobs[j].starts = 3
        /\ q.jobs[k].state = "failed" /\ q.jobs[k].maxRetries = 0
        /\ q.jobs[k].starts = 1

\* C8: cancelTask returns true exactly when the job is Pending or Running at
\* the call (so at most once per job), counts it in cancelledTasks, and returns
\* false without changing anything otherwise.
C8_CancelTaskResult ==
    [][\A j \in JobIds :
          (lastCall'.op = "cancelTask" /\ lastCall'.job = j)
          => /\ lastCall'.ok <=> q.jobs[j].state \in ActiveStates
             /\ lastCall'.ok => /\ q'.jobs[j].state = "cancelled"
                                /\ stats'.cancelledTasks = stats.cancelledTasks + 1
             /\ ~lastCall'.ok => UNCHANGED <<q, tasks, stats>>]_vars

\* C9: every awaiter of a job observes the job's one terminal outcome, exactly
\* once, whenever it registered: before the job started, across its retries or
\* after it ended; all awaiters of a job observe the same.
C9_AwaitersAgree ==
    \A j \in JobIds :
        /\ \A w \in Waiters :
               /\ Len(q.obs[j][w]) <= 1
               /\ q.obs[j][w] # <<>>
                  => /\ q.jobs[j].state \in TerminalStates
                     /\ q.obs[j][w][1] = q.jobs[j].state
        /\ q.jobs[j].state \in TerminalStates => q.awaiting[j] = {}
        /\ \A w \in q.awaiting[j] : q.obs[j][w] = <<>>

\* The analysis and an outside awaiter both observed the failure of a job that
\* was retried.
C9_Witness ==
    \E j \in JobIds :
        /\ q.jobs[j].attempts = 2
        /\ q.obs[j]["a1"] = <<"failed">>
        /\ q.obs[j]["ext"] = <<"failed">>

\* C10: cancelAnalysis returns true only for an analysis whose status is
\* running; for an unknown id and for a completed, failed or cancelled analysis
\* it returns false and changes nothing.
C10_CancelOnlyRunning ==
    [][\A a \in Analyses :
          (lastCall'.op = "cancelAnalysis" /\ lastCall'.an = a)
          => /\ lastCall'.ok <=> analyses[a].status = "running"
             /\ ~lastCall'.ok
                => UNCHANGED <<q, analyses, stats, events, tasks, calls, reconciled>>]_vars

C10_Witness ==
    /\ lastCall.op = "cancelAnalysis"
    /\ ~lastCall.ok
    /\ \E a \in Analyses : lastCall.an = a /\ analyses[a].status = "completed"

AnalysisJobs(a) == {analyses[a].taskIds[i] : i \in 1..Len(analyses[a].taskIds)}

\* C11: when cancelAnalysis succeeds, every job of the analysis that was
\* Pending or Running is Cancelled, every job that had settled keeps its
\* outcome, and the count in the analysis:cancelled notification and the
\* increase of cancelledTasks both equal the number of jobs cancelled by the call.
C11_CancelPropagates ==
    [][\A a \in Analyses :
          (lastCall'.op = "cancelAnalysis" /\ lastCall'.an = a /\ lastCall'.ok)
          => LET active == {j \in AnalysisJobs(a) : q.jobs[j].state \in ActiveStates}
             IN /\ \A j \in active : q'.jobs[j].state = "cancelled"
                /\ \A j \in AnalysisJobs(a) \ active : q'.jobs[j] = q.jobs[j]
                /\ lastCall'.count = Cardinality(active)
                /\ stats'.cancelledTasks = stats.cancelledTasks + Cardinality(active)
                /\ events'[a] = Append(events[a], [name |-> "analysis:cancelled",
                                                   count |-> Cardinality(active)])]_vars

\* A cancel that found one job completed, one failed and one still active.
C11_Witness ==
    /\ lastCall.op = "cancelAnalysis" /\ lastCall.ok /\ lastCall.count = 1
    /\ \E a \in Analyses :
           /\ lastCall.an = a
           /\ \E j, k, m \in AnalysisJobs(a) :
                  /\ q.jobs[j].state = "completed"
                  /\ q.jobs[k].state = "failed"
                  /\ q.jobs[m].state = "cancelled"

\* C12: the status of an analysis changes only from running to one of
\* completed, failed, cancelled (after its registration as running), and never
\* changes again once it is completed, failed or cancelled.
C12_StatusSettlesOnce ==
    [][\A a \in Analyses :
          analyses'[a].status # analyses[a].status
          => \/ analyses[a].status = "none" /\ analyses'[a].status = "running"
             \/ /\ analyses[a].status = "running"
                /\ analyses'[a].status \in {"completed", "failed", "cancelled"}]_vars

\* C13: cleanup, for any maxAge and at any time, leaves the bookkeeping of
\* every job that is still Pending or Running (its tasks entry and its queue
\* entry) and every analysis whose status is running as it was.
C13_CleanupKeepsActive ==
    [][lastCall'.op = "cleanup"
       => /\ \A j \in JobIds :
                 q.jobs[j].state \in ActiveStates
                 => tasks'[j] = tasks[j] /\ q'.jobs[j] = q.jobs[j]
          /\ \A a \in Analyses :
                 analyses[a].status = "running" => analyses'[a] = analyses[a]]_vars

TerminalStatuses == {"completed", "failed", "cancelled"}

\* C14: cleanup(0) removes every analysis that is completed, failed or
\* cancelled and every terminal job at the moment of the call, also those
\* started or finished at the clock instant of the call; afterwards none is
\* tracked and the returned count is the number of entries removed.
C14_CleanupZeroRemovesAll ==
    [][Cleanup(0)
       => /\ \A a \in Analyses : analyses'[a].status \notin TerminalStatuses
          /\ \A j \in JobIds :
                 q.jobs[j].state \in TerminalStates
                 => tasks'[j] = "none" /\ q'.jobs[j].state \notin TerminalStates
          /\ lastCall'.count =
                 Cardinality({a \in Analyses : analyses'[a] # analyses[a]})
                 + Cardinality({j \in JobIds : tasks'[j] # tasks[j]})
                 + Cardinality({j \in JobIds : q'.jobs[j] # q.jobs[j]})]_vars

\* C15: for every call of executeParallelAnalysis that is past its submit
\* loop, exactly one job was submitted per entry of the task plan, and the
\* analysis records the job ids in plan order: taskIds and taskTypes have the
\* same length and taskIds[i] is the job of taskTypes[i].
C15_OneJobPerPlanEntry ==
    \A a \in Analyses :
        calls[a].pc \notin {"idle", "submitting"}
        => /\ Cardinality(OwnJobs(a)) = Len(calls[a].types)
           /\ analyses[a].taskTypes = calls[a].types
           /\ Len(analyses[a].taskIds) = Len(analyses[a].taskTypes)
           /\ \A i \in 1..Len(analyses[a].taskIds) :
                  /\ q.jobs[analyses[a].taskIds[i]].type = analyses[a].taskTypes[i]
                  /\ q.jobs[analyses[a].taskIds[i]].owner = a
                  /\ \A k \in 1..Len(analyses[a].taskIds) :
                         k # i => analyses[a].taskIds[k] # analyses[a].taskIds[i]

Planned(plan, type) == \E i \in 1..Len(plan) : plan[i] = type

\* C16: the task plan follows the decision table: structural and perceptual
\* analysis unless the caller lists explicit types (then the listed ones);
\* segmentation and element classification exactly when image and viewport
\* are present and visual features are enabled; visual-to-structure mapping
\* exactly when, in addition, node metadata is present; state-change and
\* animation detection exactly when temporal features are enabled.
C16_PlanFollowsTable ==
    [][\A a \in Analyses, req \in PlanRequests, opts \in PlanOptions :
          PlanAnalysis(a, req, opts)
          => LET plan == calls'[a].types
                 visualOn == IF opts.useVisualAnalysis = None
                             THEN cfg.enableVisualAnalysis
                             ELSE Get(opts.useVisualAnalysis)
                 temporalOn == IF opts.useTemporalAnalysis = None
                               THEN cfg.enableTemporalAnalysis
                               ELSE Get(opts.useTemporalAnalysis)
                 visual == visualOn /\ req.screenshot /\ req.viewport
                 listed == IF opts.analysisTypes = None
                           THEN {TaskType.DOM_ANALYSIS, TaskType.VISION_ANALYSIS}
                           ELSE {Get(opts.analysisTypes)[i] :
                                     i \in 1..Len(Get(opts.analysisTypes))}
             IN /\ \A t \in {TaskType.DOM_ANALYSIS, TaskType.VISION_ANALYSIS,
                             TaskType.PATTERN_MATCHING} :
                       Planned(plan, t) <=> t \in listed
                /\ Planned(plan, TaskType.VISUAL_SEGMENTATION) <=> visual
                /\ Planned(plan, TaskType.ELEMENT_CLASSIFICATION) <=> visual
                /\ Planned(plan, TaskType.VISUAL_MAPPING) <=> (visual /\ req.domNodes)
                /\ Planned(plan, TaskType.STATE_TRACKING) <=> temporalOn
                /\ Planned(plan, TaskType.ANIMATION_DETECTION) <=> temporalOn
                /\ \A i, k \in 1..Len(plan) : plan[i] = plan[k] => i = k]_vars

\* A call option switched the visual tasks on for an orchestrator built
\* without them, and the temporal ones off.
C16_Witness ==
    /\ ~cfg.enableVisualAnalysis
    /\ cfg.enableTemporalAnalysis
    /\ \E a \in Analyses :
           calls[a].types = <<TaskType.VISUAL_SEGMENTATION, TaskType.ELEMENT_CLASSIFICATION,
                              TaskType.DOM_ANALYSIS, TaskType.VISION_ANALYSIS,
                              TaskType.VISUAL_MAPPING>>

\* C17: transition prediction is planned only when temporal features are
\* enabled and a state captured by an earlier analysis exists; the first
\* analysis of an orchestrator does not plan it.
C17_PredictionNeedsPriorState ==
    [][\A a \in Analyses, req \in PlanRequests, opts \in PlanOptions :
          PlanAnalysis(a, req, opts)
          => (Planned(calls'[a].types, TaskType.TRANSITION_PREDICTION)
              => /\ IF opts.useTemporalAnalysis = None THEN cfg.enableTemporalAnalysis
                    ELSE Get(opts.useTemporalAnalysis)
                 /\ tracker)]_vars

\* The candidates of cands that propose the (action, selector) of candidate i.
Agreeing(cands, i) ==
    SelectSeq(cands, LAMBDA c : c.action = cands[i].action
                                /\ c.selector = cands[i].selector)

BestOf(group) ==
    CHOOSE m \in {group[i].confidence : i \in 1..Len(group)} :
        \A i \in 1..Len(group) : group[i].confidence <= m

\* What the reconciliator makes of one agreement group on its own.
Combined(group) ==
    IF Len(group) = 1 THEN group[1].confidence ELSE Reconcile(group, "a1").confidence

\* C18: for every agreement group of two or more candidates the combined
\* confidence is at least the best individual confidence of the group, at
\* most 1.0, and not below (above, while under 1.0) that of the group with one
\* agreeing source fewer.
C18_AgreementRaisesConfidence ==
    \A a \in Analyses :
        reconciled[a] # <<>>
        => LET cands == reconciled[a][1].candidates
           IN \A i \in 1..Len(cands) :
                  LET group == Agreeing(cands, i)
                  IN Len(group) >= 2
                     => /\ Combined(group) >= BestOf(group)
                        /\ Combined(group) <= 100
                        /\ \A k \in 1..Len(group) :
                               LET fewer == Combined(RemoveAt(group, k))
                               IN /\ Combined(group) >= fewer
                                  /\ fewer < 100 => Combined(group) > fewer

\* Two sources agreed below the cap and the result carries their raised confidence.
C18_Witness ==
    \E a \in Analyses :
        /\ reconciled[a] # <<>>
        /\ calls[a].pc = "resolved"
        /\ Len(calls[a].result.sources) = 2
        /\ calls[a].result.confidence = 95
        /\ \E i \in 1..Len(reconciled[a][1].candidates) :
               BestOf(Agreeing(reconciled[a][1].candidates, i)) = 70

BestRankOf(group) ==
    CHOOSE r \in {SourceRank(group[i].source) : i \in 1..Len(group)} :
        \A i \in 1..Len(group) : r <= SourceRank(group[i].source)

\* For each candidate its group's combined confidence, number of sources,
\* best confidence and best source rank.
GroupKeys(cands) ==
    {<<i, Combined(Agreeing(cands, i)), Len(Agreeing(cands, i)),
       BestOf(Agreeing(cands, i)), BestRankOf(Agreeing(cands, i))>> :
        i \in 1..Len(cands)}

\* the group of key x comes before the group of key y in the order of 4.3:
\* higher combined confidence, then more sources, then higher best
\* confidence, then the source that is first in
\* structural > perceptual > heuristic > learned > pattern.
ComesBefore(x, y) ==
    \/ x[2] > y[2]
    \/ x[2] = y[2] /\ x[3] > y[3]
    \/ x[2] = y[2] /\ x[3] = y[3] /\ x[4] > y[4]
    \/ x[2] = y[2] /\ x[3] = y[3] /\ x[4] = y[4] /\ x[5] <= y[5]

\* The candidates in the order of their sources.
BySource(cands) ==
    LET from(rank) == SelectSeq(cands, LAMBDA c : SourceRank(c.source) = rank)
    IN from(1) \o from(2) \o from(3) \o from(4) \o from(5) \o from(6)

SourceSet(result) == {result.sources[i] : i \in 1..Len(result.sources)}

ScenarioCandidates(cands) ==
    /\ Len(cands) = 3
    /\ cands[1].source = "dom" /\ cands[1].action = "click"
    /\ cands[1].selector = "#s1" /\ cands[1].confidence = 60
    /\ cands[2].source = "vision" /\ cands[2].action = "click"
    /\ cands[2].selector = "#s1" /\ cands[2].confidence = 70
    /\ cands[3].source = "pattern" /\ cands[3].action = "scroll"
    /\ cands[3].confidence = 90

C21_ReconcileNeedsTwo ==
    /\ \A a \in Analyses :
           \A i \in 1..Len(reconciled[a]) :
               Len(reconciled[a][i].candidates) < 2
               => /\ calls[a].pc = "rejected"
                  /\ calls[a].error = "too_few_candidates"
                  /\ calls[a].result = NoPayload
    /\ \A a \in Callers :
           /\ \A i \in 1..Len(reconciled[a]) :
                  /\ Len(reconciled[a][i].candidates) >= 2
                  /\ Len(reconciled[a][i].candidates) = Len(SuccessfulIds(a))
           /\ (Aggregated(a) /\ Len(SuccessfulIds(a)) < 2) => reconciled[a] = <<>>

\* A direct call with one candidate was rejected, and the orchestrator
\* resolved an analysis with one successful job of two without reconciling.
C21_Witness ==
    /\ \E a \in Analyses \ Callers :
           /\ Len(reconciled[a]) = 1
           /\ Len(reconciled[a][1].candidates) = 1
           /\ calls[a].pc = "rejected"
    /\ \E a \in Callers :
           /\ calls[a].pc = "resolved"
           /\ Len(calls[a].taskIds) = 2
           /\ Len(SuccessfulIds(a)) = 1
           /\ reconciled[a] = <<>>

\* C22: once cancel has returned true for a job, the job stays Cancelled and
\* no attempt of it is started again (also not the retry whose backoff delay
\* was pending), and every awaiter, registered before or after, observes
\* Cancelled and nothing else, whatever the abandoned work delivers later.
C22_CancelledStaysCancelled ==
    [][\A j \in JobIds :
          /\ (CancelJob(j) /\ QCanCancel(q, j))
             => /\ q'.jobs[j].state = "cancelled"
                /\ \A w \in q.awaiting[j] : q'.obs[j][w] = <<"cancelled">>
          /\ q.jobs[j].state = "cancelled"
             => /\ q'.jobs[j].state = "cancelled"
                /\ q'.jobs[j].starts = q.jobs[j].starts
                /\ \A i \in 1..Len(q'.ready) : q'.ready[i] # j
                /\ q.awaiting[j] = {} /\ q'.awaiting[j] = {}
                /\ \A w \in Waiters : q'.obs[j][w] \in {<<>>, <<"cancelled">>}
                /\ \A w \in Waiters : q.obs[j][w] # <<>> => q'.obs[j][w] = q.obs[j][w]]_vars

\* A job cancelled while its retry was waiting for the backoff delay; the
\* work of its timed-out attempt then delivered a value, and both awaiters
\* observed the cancellation.
C22_Witness ==
    \E j \in JobIds :
        /\ q.jobs[j].state = "cancelled"
        /\ q.jobs[j].attempts = 1 /\ q.jobs[j].starts = 1
        /\ TRUE \in q.discarded[j]
        /\ q.obs[j]["a1"] = <<"cancelled">>
        /\ q.obs[j]["ext"] = <<"cancelled">>

\* C23: an attempt that timed out counts as a failed attempt under the retry
\* policy (retried without notifying anyone while attempts remain); once the
\* retries are used up the job is TimedOut and its awaiters observe the
\* timeout, not a failure or a cancellation; a late result of abandoned work
\* changes no job, no awaiter's outcome and no analysis.
C23_TimeoutRetriedThenReported ==
    [][\A j \in JobIds :
          /\ JobTimesOutWorking(j)
             => IF q.jobs[j].attempts < q.jobs[j].maxRetries
                THEN /\ q'.jobs[j].state \in ActiveStates
                     /\ q'.jobs[j].attempts = q.jobs[j].attempts + 1
                     /\ q'.jobs[j].starts = q.jobs[j].starts
                     /\ q'.obs[j] = q.obs[j] /\ q'.awaiting[j] = q.awaiting[j]
                ELSE /\ q'.jobs[j].state = "timeout"
                     /\ q'.jobs[j].starts = q.jobs[j].maxRetries + 1
                     /\ \A w \in q.awaiting[j] : q'.obs[j][w] = <<"timeout">>
          /\ q.jobs[j].state = "timeout"
             => /\ q'.jobs[j].state = "timeout"
                /\ \A w \in Waiters : q'.obs[j][w] \in {<<>>, <<"timeout">>}
          /\ \A ok \in BOOLEAN :
                 LateResult(j, ok)
                 => /\ q'.jobs = q.jobs /\ q'.obs = q.obs /\ q'.ready = q.ready
                    /\ UNCHANGED <<analyses, calls, events, stats, reconciled>>]_vars

\* Every attempt of the one job of an analysis timed out, the analysis was
\* rejected, and afterwards abandoned work delivered a value.
C23_Witness ==
    \E a \in Analyses, j \in JobIds :
        /\ calls[a].pc = "rejected" /\ calls[a].error = "all_failed"
        /\ calls[a].taskIds = <<j>>
        /\ q.jobs[j].state = "timeout" /\ q.jobs[j].starts = 3
        /\ q.obs[j][a] = <<"timeout">>
        /\ q.stale[j] = 2 /\ q.discarded[j] = {TRUE}
        /\ analyses[a].status = "failed"

\* C24: when a call fails on an unknown task type, no job the call submitted
\* is left Pending or Running in the queue outside a registered analysis, and
\* the entries of the other analyses are as they were.
C24_UnknownTypeLeavesNoOrphan ==
    \A a \in Analyses :
        (calls[a].pc = "rejected" /\ calls[a].error = "unknown_type")
        => /\ \A j \in OwnJobs(a) :
                  q.jobs[j].state \in ActiveStates
                  => \E b \in Analyses :
                         analyses[b].status # "none" /\ j \in AnalysisJobs(b)
           /\ \A b \in Analyses \ {a} : analyses[b] = NoAnalysis

\* C25: every value a call resolves with has an action of the enumeration, a
\* confidence within [0, 1] and a non-empty list of sources, each the source
\* of a job of the analysis that succeeded.
C25_DecisionWellFormed ==
    \A a \in Analyses :
        calls[a].pc = "resolved"
        => LET r == calls[a].result
           IN /\ r.action \in ActionEnum
              /\ r.confidence >= 0 /\ r.confidence <= 100
              /\ r.sources # <<>>
              /\ \A i \in 1..Len(r.sources) :
                     \E j \in CompletedJobs(a) : q.jobs[j].value.source = r.sources[i]

\* C26: after destroy no job is Pending or Running, no analysis is running,
\* every call started afterwards is rejected, and a call that was in flight
\* has all its jobs settled (it does not hang) and is rejected: it never
\* resolves with a decision.
C26_ShutdownRejectsAll ==
    [][q.down
       => /\ \A j \in JobIds : q.jobs[j].state \notin ActiveStates
          /\ \A a \in Analyses :
                 /\ analyses[a].status # "running"
                 /\ calls[a].pc = "waiting" => AllSettled(a)
                 /\ calls'[a].pc # calls[a].pc => calls'[a].pc \in {"rejected", "reconciling"}
                 /\ calls[a].pc = "reconciling" => calls'[a].pc # "resolved"]_vars

\* The status a lifecycle notification announces.
StatusOf(name) ==
    CASE name = "analysis:completed" -> "completed"
      [] name = "analysis:failed" -> "failed"
      [] name = "analysis:cancelled" -> "cancelled"
      [] OTHER -> "none"

\* C29: over the life of an analysis at most one of analysis:completed,
\* analysis:failed and analysis:cancelled is emitted, exactly one once its
\* status is completed, failed or cancelled, and it announces that status.
C29_OneLifecycleNotification ==
    \A a \in Analyses :
        /\ Len(events[a]) <= 1
        /\ analyses[a].status \in TerminalStatuses => Len(events[a]) = 1
        /\ events[a] # <<>> => analyses[a].status = StatusOf(events[a][1].name)

\* executeAction is called by loop invocation i in this step.
PageAction(i) ==
    agent'.loops[i].pc = "executing" /\ agent.loops[i].pc # "executing"

\* C27: one plan is attempted at most 3 times; the third failure leaves the
\* agent waiting for the user with a question pending; while that question
\* is pending no page action is performed; and a successful attempt is the
\* last attempt of its plan.
C27_ThreeAttemptsThenAsk ==
    [][\A i \in Loops :
          /\ agent'.loops[i].attempt <= 3
          /\ (ActionFails(i) /\ agent.loops[i].attempt = 3)
             => /\ agent'.waiting
                /\ agent'.question = "max_retries"
                /\ agent'.loops[i].pc = "ended"
          /\ ActionSucceeds(i) => agent'.loops[i].pc \in {"succeeded", "ended"}
          /\ (agent.question = "max_retries" /\ agent'.question = "max_retries")
             => ~PageAction(i)]_vars

\* C28: the delay waited after the failed attempt number n is n seconds.
C28_DelaysEscalateBySecond ==
    \A i \in Loops :
        agent.loops[i].pc = "backoff"
        => agent.loops[i].delay = agent.loops[i].attempt * 1000

\* Job j was submitted and has not been started or cancelled yet.
Waiting(j) == q.jobs[j].state = "pending" /\ q.jobs[j].starts = 0

\* A job of higher priority than job j is pending or running.
HigherActive(j) ==
    \E k \in JobIds : q.jobs[k].state \in ActiveStates /\ q.jobs[k].prio > q.jobs[j].prio

\* No concurrency slot is free while a job is ready.
NoIdleSlot == RunningCount(q.jobs) < q.opts.maxConcurrent => q.ready = <<>>

\* A submission returns at once: the new job is running, or waits in the ready
\* list when every slot is taken.
SubmitReturns ==
    \A j \in JobIds :
        (q.jobs[j].state = "none" /\ q'.jobs[j].state # "none")
        => \/ q'.jobs[j].state = "running"
           \/ /\ q'.jobs[j].state = "pending"
              /\ \E i \in 1..Len(q'.ready) : q'.ready[i] = j
              /\ RunningCount(q'.jobs) = q.opts.maxConcurrent

\* C30: the scheduler is work-conserving: submit returns a job id without
\* waiting for a slot, after every submission and every slot-free event no
\* slot is free while the ready set is non-empty, and under fairness every
\* submitted job is eventually started or cancelled.
C30_WorkConservingEveryJobStarts ==
    /\ [][SubmitReturns]_vars
    /\ []NoIdleSlot
    /\ \A j \in JobIds : Waiting(j) ~> ~Waiting(j)

\* C30 (amended): as above, but a submitted job is eventually started or
\* cancelled unless jobs of higher priority keep taking the slots: a job that
\* waits for ever has a job of higher priority pending or running again and
\* again.
C30_WorkConservingStartsByPriority ==
    /\ [][SubmitReturns]_vars
    /\ []NoIdleSlot
    /\ \A j \in JobIds : Waiting(j) ~> (~Waiting(j) \/ HigherActive(j))

\* A HIGH job waits behind a running HIGH job and another waiting HIGH job
\* submitted before it.
C30_Witness ==
    /\ Len(q.ready) = 2
    /\ \A j \in JobIds : q.jobs[j].state \in ActiveStates => q.jobs[j].prio = Priority.HIGH
    /\ RunningCount(q.jobs) = q.opts.maxConcurrent

\* The call of analysis a is in flight / has settled.
InFlight(a) == calls[a].pc \in {"submitting", "waiting", "reconciling"}
Settled(a) == calls[a].pc \in {"resolved", "rejected"}

\* A job of another analysis with a higher priority than a job of analysis a
\* is pending or running.
Outranked(a) ==
    \E j, k \in JobIds : /\ q.jobs[j].owner = a /\ q.jobs[j].state = "pending"
                         /\ q.jobs[k].owner # a /\ q.jobs[k].state \in ActiveStates
                         /\ q.jobs[k].prio > q.jobs[j].prio

\* C31: every call of executeParallelAnalysis eventually resolves or rejects,
\* even when task functions never settle, when the analysis is cancelled and
\* when other analyses compete for the same concurrency slots.
C31_EveryCallSettles == \A a \in Callers : InFlight(a) ~> Settled(a)

\* C31 (amended): every call eventually resolves or rejects unless jobs of
\* competing analyses with a higher priority keep taking the slots: a call
\* that stays in flight for ever has a pending job outranked again and again.
C31_EveryCallSettlesUnlessOutranked ==
    \A a \in Callers : InFlight(a) ~> (Settled(a) \/ Outranked(a))

\* The call rejected after its only job ran out of retries by timeouts, beside
\* a competing job.
C31_Witness ==
    /\ calls["a1"].pc = "rejected"
    /\ \E j, k \in JobIds : /\ q.jobs[j].owner = "a1" /\ q.jobs[j].state = "timeout"
                             /\ q.jobs[j].starts = QueueMaxRetries + 1
                             /\ q.jobs[k].owner # "a1" /\ q.jobs[k].state = "running"

\* C32: executeParallelAnalysis leaves the caller's options.analysisTypes list
\* unchanged, so a second call with the same request and the same options
\* object derives the same plan as the first, each task type planned at most
\* once.
C32_OptionsLeftUnchanged ==
    [][\A a \in Analyses :
          PlanShared(a)
          => /\ caller'.options.analysisTypes = caller.options.analysisTypes
             /\ \A i, k \in 1..Len(calls'[a].types) :
                    calls'[a].types[i] = calls'[a].types[k] => i = k
             /\ \A b \in Analyses :
                    calls[b].pc = "planned" => calls'[a].types = calls[b].types]_vars

\* C33: after any sequence of executeParallelAnalysis, cancelTask,
\* cancelAnalysis and cleanup calls the counters satisfy completedTasks +
\* failedTasks + cancelledTasks <= totalTasks, a cancel call counts a job in
\* cancelledTasks only when it cancelled it (so each job at most once), and no
\* counter ever decreases.
C33_CountersWithinTotal ==
    /\ [](stats.completedTasks + stats.failedTasks + stats.cancelledTasks
             <= stats.totalTasks)
    /\ [](stats.cancelledTasks
             <= Cardinality({j \in JobIds : q.jobs[j].state \in {"cancelled", "removed"}}))
    /\ [][/\ stats'.totalTasks >= stats.totalTasks
          /\ stats'.completedTasks >= stats.completedTasks
          /\ stats'.failedTasks >= stats.failedTasks
          /\ stats'.cancelledTasks >= stats.cancelledTasks]_vars

\* The planned tasks of analysis a are classified once each: a fulfilled job
\* among the successes, a rejected one among the failed tasks with its id and
\* its type.
ClassifiedOnce(a) ==
    LET ids == calls[a].taskIds
        ok(i) == Head(q.obs[ids[i]][a]) = "completed"
        good == SuccessfulIds(a)
        bad == FailedTasks(a)
    IN /\ Len(ids) = Len(calls[a].types)
       /\ Len(good) + Len(bad) = Len(calls[a].types)
       /\ \A i \in 1..Len(ids) :
              /\ ok(i) <=> \E k \in 1..Len(good) : good[k] = ids[i]
              /\ ~ok(i) <=> \E k \in 1..Len(bad) :
                                /\ bad[k] = [taskId |-> ids[i], taskType |-> calls[a].types[i]]
                                /\ q.jobs[ids[i]].type = bad[k].taskType
       /\ \A k, m \in 1..Len(bad) : k < m => bad[k].taskId < bad[m].taskId

\* The counts recorded on the analysis are those of the classification.
CountsRecorded(a) ==
    /\ analyses[a].tasksCompleted = Len(SuccessfulIds(a))
    /\ analyses[a].tasksFailed = Len(FailedTasks(a))
    /\ analyses[a].tasksCompleted + analyses[a].tasksFailed = Len(calls[a].types)

\* C34: when an analysis aggregates, every planned task is classified exactly
\* once (fulfilled: succeeded; rejected: failed, reported with its task id and
\* task type at the same position of the plan), so tasksCompleted +
\* tasksFailed of the analysis equals the number of planned tasks.
C34_EveryTaskClassifiedOnce ==
    \A a \in Callers :
        Aggregated(a)
        => /\ ClassifiedOnce(a)
           /\ analyses[a].status \in {"completed", "failed"} => CountsRecorded(a)

\* C35: cancelling a Running job frees its slot and drops its timers in the
\* same step: the next ready job starts at once although the cancelled work
\* goes on, the later settling of that work frees no slot a second time, and a
\* cancelled job is never started (again): no timeout or retry timer of it fires.
C35_CancelFreesSlotOnce ==
    [][\A j \in JobIds :
          /\ (CancelJob(j) /\ q.jobs[j].state = "running")
             => /\ q'.jobs[j].state = "cancelled"
                /\ q'.stale[j] = q.stale[j] + 1
                /\ RunningCount(q'.jobs) < q.opts.maxConcurrent => q'.ready = <<>>
                /\ q.ready # <<>>
                   => /\ q'.jobs[q.ready[NextReadyIndex(q.jobs, q.ready)]].state = "running"
                      /\ RunningCount(q'.jobs) = RunningCount(q.jobs)
          /\ \A ok \in BOOLEAN :
                LateResult(j, ok) => q'.jobs = q.jobs /\ q'.ready = q.ready
          /\ q.jobs[j].state = "cancelled"
             => /\ q'.jobs[j].state = "cancelled"
                /\ q'.jobs[j].starts = q.jobs[j].starts
                /\ q'.jobs[j].attempts = q.jobs[j].attempts
                /\ \A i \in 1..Len(q'.ready) : q'.ready[i] # j]_vars

\* On a queue with one slot a Running job was cancelled, the job behind it runs
\* and the cancelled work has settled since.
C35_Witness ==
    \E j, k \in JobIds :
        /\ q.opts.maxConcurrent = 1
        /\ q.jobs[j].state = "cancelled" /\ q.jobs[j].starts = 1 /\ q.discarded[j] # {}
        /\ q.jobs[k].state = "running" /\ j < k

\* Two executeParallelAnalysis calls on an orchestrator with a state tracker and
\* one job slot: a call plans the three temporal tasks, or names a task type
\* createTaskFunction does not know and is rejected after its state capture.
TrackedOptions ==
    [analysisTypes : {Some(<<>>), Some(<<"speech_analysis">>)}, priority : {0},
     useVisualAnalysis : {None}, useTemporalAnalysis : {None}]

InitTracked ==
    InitWith([maxWorkers |-> 0, maxConcurrent |-> 1,
              enableVisualAnalysis |-> Some(FALSE), enableTemporalAnalysis |-> None])

NextTracked ==
    \/ \E a \in Analyses, req \in Requests, opts \in TrackedOptions : ExecStart(a, req, opts)
    \/ \E a \in Analyses : ExecLoop(a)
    \/ \E a \in Analyses : Aggregate(a)
    \/ \E j \in JobIds, c \in ConfidenceChoices : JobSucceeds(j, "wait", c)
    \/ \E j \in JobIds : JobThrows(j)
    \/ \E j \in JobIds : RetryDelayElapsed(j)

SpecTracked == InitTracked /\ [][NextTracked]_vars

\* The task functions that read this.stateTracker: detectChanges(),
\* getPreviousState(), getCurrentState().
StateReadingTypes ==
    {TaskType.STATE_TRACKING, TaskType.ANIMATION_DETECTION, TaskType.TRANSITION_PREDICTION}

\* an attempt of job j starts in this step: its task function is called
AttemptStarts(j) == q'.jobs[j].starts > q.jobs[j].starts

\* C36: the outcome of an analysis's tasks depends only on the request that
\* analysis closed over: whenever a task function that reads the state tracker
\* is called, the tracker's current state is the one captured from the request
\* of the task's own analysis, whatever other calls have started meanwhile.
C36_TasksReadOwnRequest ==
    [][\A j \in JobIds :
          (AttemptStarts(j) /\ q'.jobs[j].type \in StateReadingTypes)
              => snapshot' = q'.jobs[j].owner]_vars

\* C37: after stop() no page action is performed by the agent until start() is
\* called again, wherever its loop was when stop() was called: while the agent
\* stays inactive no invocation of loop() calls executeAction.
C37_NoPageActionAfterStop ==
    [][(~agent.active /\ ~agent'.active) => \A i \in Loops : ~PageAction(i)]_vars

\* The invocations of loop() that are between their entry and their return.
InFlightLoops == {i \in Loops : agent.loops[i].pc # "ended"}

\* C38: at most one loop iteration (capture, ask the model, execute with retry)
\* is in flight at any time, for every interleaving of start, stop,
\* handleUserResponse and the loop's timers; two iterations never execute
\* actions at the same time.
C38_OneIterationInFlight == Cardinality(InFlightLoops) <= 1

\* The plan of invocation i is 'done' and its executeAction resolves in this step.
GoalReached(i) == ActionSucceeds(i) /\ agent.loops[i].done

\* C39: when the plan 'done' is carried out successfully the session is ended
\* with status 'completed'; it is ended with status 'cancelled' only by a stop
\* before the goal was reached.
C39_DoneEndsSessionCompleted ==
    [][\A i \in Loops :
          GoalReached(i)
              => /\ agent'.session = "completed"
                 /\ ~(agent.session # "cancelled" /\ agent'.session = "cancelled")]_vars

\* The chat overlay on its own: every sequence of its five operations.
NextChat ==
    \/ \E sender \in Senders : AddMessage(sender)
    \/ Toggle
    \/ Expand
    \/ Collapse
    \/ Clear

SpecChat == InitAgent /\ [][NextChat]_vars

\* Number of agent messages in a sequence of senders.
AgentMessages(senders) ==
    Cardinality({i \in 1..Len(senders) : senders[i] = "agent"})

\* C40: after any sequence of addMessage, toggle, expand, collapse and clear
\* the unread count is 0 whenever the overlay is expanded, and while it is
\* collapsed it is the number of agent messages added since the overlay last
\* became collapsed or was cleared; user messages never count.
C40_UnreadCountsAgentMessages ==
    /\ chat.expanded => chat.unreadCount = 0
    /\ ~chat.expanded => chat.unreadCount = AgentMessages(chat.since)

\* The overlay is collapsed; a user message and then an agent message were
\* added since, and one message is unread.
C40_Witness ==
    /\ ~chat.expanded
    /\ chat.since = <<"user", "agent">>
    /\ chat.unreadCount = 1

====
